---------------------------- MODULE Spec2Model ----------------------------
(***************************************************************************)
(* News-Analyzer-Agent: the quota-aware retry and rate-limiting layer.     *)
(*                                                                         *)
(*   src/config.py  QuotaAwareLLM (limiter, classifier, extractor, retry   *)
(*                  driver invoke/_generate), EmbeddingRateLimiter,        *)
(*                  QuotaAwareEmbeddings (embed_documents, embed_query),   *)
(*                  the start-up check of GOOGLE_API_KEY                   *)
(*   src/crew.py    EnhancedNewsCrew (classifier, extractor, backoff       *)
(*                  calculator, retry driver execute_with_retry, topic     *)
(*                  prompts, create_news_crew), main and the script        *)
(*   src/tools.py   RateLimitedTool (limiter), News DB Tool, Get News      *)
(*                  Tool, Search Tool: their limiters and what one         *)
(*                  invocation does and returns                            *)
(*                                                                         *)
(* Error texts are TLA+ strings; TLC evaluates Len, SubSeq, Head, Tail and *)
(* \o on them, so the classifiers and the regular expressions are computed *)
(* character by character, as the Python code computes them.  Time is in   *)
(* whole seconds.  An Optional[int] is <<>> (None) or <<n>>.               *)
(***************************************************************************)
EXTENDS Integers, Sequences, FiniteSets, TLC

VARIABLES
    \* ---- a pure function applied to an input (SpecPure) ----
    fn,                  \* the function applied last, "none" before any
    error_message,       \* its string argument
    attempt_arg,         \* its attempt argument (_calculate_wait_time)
    ret,                 \* what it returned
    \* ---- one rate limiter instance and the clock (SpecLimiter, Spec) ----
    limiter,             \* the instance's class: "llm", "embedding", "tool", or
                         \* the tool invoked: "news_db", "get_news", "search"
    requests_per_minute, \* its ceiling
    request_times,       \* its request_times list
    now,                 \* datetime.now(), in whole seconds
    half,                \* the half-seconds datetime.now() is past `now`: 0 or 1
    recorded,            \* history: every timestamp the instance ever appended
                         \* (like request_times in seconds, but in half-seconds
                         \* where embed_documents and embed_query are followed)
    requests,            \* history: the instants (in half-seconds) at which a
                         \* request went to the provider, or a tool call was admitted
    acquires,            \* history: number of acquire() calls made
    elapses,             \* history: number of pauses between calls
    strict_setattr,      \* whether ChatGoogleGenerativeAI, the base class of
                         \* QuotaAwareLLM, refuses the assignment of an attribute
                         \* that is no declared field (a pydantic model does)
    \* ---- one run of a retry driver (Spec) ----
    driver,              \* what runs: "none", "invoke", "_generate", "execute_with_retry",
                         \* "embed_documents", "embed_query", or a tool's name
    pc,                  \* its position
    attempt,             \* its loop variable
    wait_time,           \* the wait computed for the pending countdown
    exc,                 \* the exception leaving the driver: [origin, text]
    result,              \* the value the driver returned
    log,                 \* history: the run's events, in order
    \* ---- the process: start-up, command line, prompts (SpecCLI) ----
    environ,             \* os.environ's GOOGLE_API_KEY, None when it holds none
    dotenv_file,         \* the .env file's GOOGLE_API_KEY, None when it holds none
    google_api_key,      \* config.GOOGLE_API_KEY, None until config.py has set it
    constructed,         \* the module-level objects config.py has built
    search_enabled,      \* serper_tool_instance.search_enabled
    topic,               \* EnhancedNewsCrew.topic, None or a string
    crew,                \* EnhancedNewsCrew.crew: "None" or "Crew"
    prompt,              \* the input() get_topic_from_user waits at
    candidate,           \* its local variable topic
    banner,              \* the headline main printed last
    exit_status          \* the status the process ended with, None while it runs

pureVars == <<fn, error_message, attempt_arg, ret>>
limVars  == <<limiter, requests_per_minute, request_times, now, recorded, requests,
              acquires, elapses, strict_setattr, half>>
drvVars  == <<driver, pc, attempt, wait_time, exc, result, log>>
envVars  == <<environ, dotenv_file>>
procVars == <<environ, dotenv_file, google_api_key, constructed, search_enabled, topic, crew,
              prompt, candidate, banner, exit_status>>
vars     == <<fn, error_message, attempt_arg, ret,
              limiter, requests_per_minute, request_times, now, recorded, requests,
              acquires, elapses, strict_setattr, half,
              driver, pc, attempt, wait_time, exc, result, log,
              environ, dotenv_file,
              google_api_key, constructed, search_enabled, topic, crew, prompt, candidate,
              banner, exit_status>>

---------------------------------------------------------------------------
(* Strings.                                                                *)

None == <<>>
Some(n) == <<n>>

Char(s, i) == SubSeq(s, i, i)

UpperLetters == "ABCDEFGHIJKLMNOPQRSTUVWXYZ"
LowerLetters == "abcdefghijklmnopqrstuvwxyz"
Digits == "0123456789"

\* The position of the one-character string c in alphabet, 0 when absent.
IndexIn(alphabet, c) ==
    IF \E i \in 1..Len(alphabet) : Char(alphabet, i) = c
    THEN CHOOSE i \in 1..Len(alphabet) : Char(alphabet, i) = c
    ELSE 0

\* The lower-case letter of each upper-case letter, and the reverse.
LowerOf == [c \in {Char(UpperLetters, i) : i \in 1..Len(UpperLetters)} |->
               Char(LowerLetters, IndexIn(UpperLetters, c))]
UpperOf == [c \in {Char(LowerLetters, i) : i \in 1..Len(LowerLetters)} |->
               Char(UpperLetters, IndexIn(LowerLetters, c))]

LowerChar(c) == IF c \in DOMAIN LowerOf THEN LowerOf[c] ELSE c

UpperChar(c) == IF c \in DOMAIN UpperOf THEN UpperOf[c] ELSE c

\* str.lower(), on ASCII text.
RECURSIVE Lower(_)
Lower(s) ==
    IF Len(s) = 0 THEN ""
    ELSE IF Len(s) = 1 THEN LowerChar(s)
    ELSE Lower(SubSeq(s, 1, Len(s) \div 2)) \o Lower(SubSeq(s, (Len(s) \div 2) + 1, Len(s)))

\* str.upper(), on ASCII text (used to build inputs only).
RECURSIVE Upper(_)
Upper(s) ==
    IF Len(s) = 0 THEN ""
    ELSE IF Len(s) = 1 THEN UpperChar(s)
    ELSE Upper(SubSeq(s, 1, Len(s) \div 2)) \o Upper(SubSeq(s, (Len(s) \div 2) + 1, Len(s)))

\* Python's `p in s`.
Contains(s, p) ==
    \E i \in 1..(Len(s) - Len(p) + 1) : SubSeq(s, i, i + Len(p) - 1) = p

IsDigit(c) == IndexIn(Digits, c) > 0

\* \s of the re module and the white space of str.strip(), on ASCII text:
\* the space, \t, \n, \r, \f, the vertical tab (0x0b) and the four
\* separators 0x1c to 0x1f.
IsSpace(c) == c \in {" ", "\t", "\n", "\r", "\f", "", "", "", "", ""}

\* int(digits): the decimal value of a non-empty string of digits.
RECURSIVE ParseInt(_)
ParseInt(d) ==
    IF d = "" THEN 0
    ELSE 10 * ParseInt(SubSeq(d, 1, Len(d) - 1)) + (IndexIn(Digits, Char(d, Len(d))) - 1)

\* str(n) / f"{n}" for n >= 0.
RECURSIVE IntToStr(_)
IntToStr(n) ==
    IF n < 10 THEN Char(Digits, n + 1)
    ELSE IntToStr(n \div 10) \o Char(Digits, (n % 10) + 1)

---------------------------------------------------------------------------
(* Regular expressions, as re.search evaluates the patterns of the code.   *)

\* The literal lit matches s at position i (under re.IGNORECASE when ic).
MatchLit(s, i, lit, ic) ==
    /\ i >= 1
    /\ i + Len(lit) - 1 <= Len(s)
    /\ IF ic THEN Lower(SubSeq(s, i, i + Len(lit) - 1)) = Lower(lit)
             ELSE SubSeq(s, i, i + Len(lit) - 1) = lit

\* Where a greedy \s* that starts at i ends (the first position after it).
SkipSpaces(s, i) ==
    CHOOSE j \in i..(Len(s) + 1) :
        /\ \A k \in i..(j - 1) : IsSpace(Char(s, k))
        /\ j = Len(s) + 1 \/ ~IsSpace(Char(s, j))

\* Where a greedy \d* that starts at i ends.
SkipDigits(s, i) ==
    CHOOSE j \in i..(Len(s) + 1) :
        /\ \A k \in i..(j - 1) : IsDigit(Char(s, k))
        /\ j = Len(s) + 1 \/ ~IsDigit(Char(s, j))

\* `.` matches every character but a newline: the positions i..j-1 hold none.
NoNewline(s, i, j) == \A k \in i..(j - 1) : Char(s, k) # "\n"

\* r'retry_delay\s*\{\s*seconds:\s*(\d+)\s*\}' matched at i: group 1, or "".
RetryDelayAt(s, i) ==
    LET a == SkipSpaces(s, i + Len("retry_delay"))
        b == SkipSpaces(s, a + 1)
        c == SkipSpaces(s, b + Len("seconds:"))
        d == SkipDigits(s, c)
        e == SkipSpaces(s, d)
    IN  IF /\ MatchLit(s, i, "retry_delay", FALSE)
           /\ MatchLit(s, a, "{", FALSE)
           /\ MatchLit(s, b, "seconds:", FALSE)
           /\ d > c
           /\ MatchLit(s, e, "}", FALSE)
        THEN SubSeq(s, c, d - 1)
        ELSE ""

\* r'seconds:\s*(\d+)' matched at i: group 1, or "".
SecondsAt(s, i, ic) ==
    LET c == SkipSpaces(s, i + Len("seconds:"))
        d == SkipDigits(s, c)
    IN  IF MatchLit(s, i, "seconds:", ic) /\ d > c THEN SubSeq(s, c, d - 1) ELSE ""

\* kw + r'.*?(\d+).*?second' matched at i under re.IGNORECASE: group 1, or "".
\* The lazy .*? stops at the first digit it can; \d+ is greedy and gives
\* digits back only if the rest cannot match otherwise.
LazyNumberAt(s, i, kw) ==
    LET from == i + Len(kw)
        \* group 1 = s[j..e-1] is possible: a match of the whole pattern exists
        Ok(j, e) ==
            /\ NoNewline(s, from, j)
            /\ \A k \in j..(e - 1) : IsDigit(Char(s, k))
            /\ \E m \in e..Len(s) : NoNewline(s, e, m) /\ MatchLit(s, m, "second", TRUE)
        Starts == {j \in from..Len(s) : \E e \in (j + 1)..(Len(s) + 1) : Ok(j, e)}
    IN  IF MatchLit(s, i, kw, TRUE) /\ Starts # {}
        THEN LET j == CHOOSE x \in Starts : \A y \in Starts : x <= y
                 e == CHOOSE x \in (j + 1)..(Len(s) + 1) :
                          Ok(j, x) /\ \A y \in (j + 1)..(Len(s) + 1) : Ok(j, y) => y <= x
             IN  SubSeq(s, j, e - 1)
        ELSE ""

\* re.search(pattern, s).group(1), given the group 1 of the match at each
\* position ("" where the pattern does not match): the match at the
\* leftmost position that has one, or "" when there is none (group 1 is
\* never empty: \d+).
FirstMatch(groups) ==
    LET Hits == {i \in DOMAIN groups : groups[i] # ""}
    IN  IF Hits = {} THEN ""
        ELSE groups[CHOOSE i \in Hits : \A k \in Hits : i <= k]

\* re.search(r'retry_delay\s*\{\s*seconds:\s*(\d+)\s*\}', s)
SearchRetryDelay(s) == FirstMatch([i \in 1..Len(s) |-> RetryDelayAt(s, i)])

\* re.search(r'seconds:\s*(\d+)', s) and the same under re.IGNORECASE
SearchSeconds(s, ic) == FirstMatch([i \in 1..Len(s) |-> SecondsAt(s, i, ic)])

\* re.search(kw + r'.*?(\d+).*?second', s, re.IGNORECASE)
SearchLazyNumber(s, kw) == FirstMatch([i \in 1..Len(s) |-> LazyNumberAt(s, i, kw)])

---------------------------------------------------------------------------
(* QuotaAwareLLM: classifier, extractor, wait policy (src/config.py).      *)

llm_requests_per_minute == 6
max_quota_retries == 5
llm_default_wait == 70
retry_buffer == 10

\* Variant: the list without its last entry.
llm_quota_indicators_short ==
    << "429", "quota", "rate limit", "resourceexhausted",
       "exceeded your current quota", "rate-limits" >>

\* quota_indicators, in the order of the list.
llm_quota_indicators ==
    << "429", "quota", "rate limit", "resourceexhausted",
       "exceeded your current quota", "rate-limits", "too many requests" >>

\* any(indicator in error_str for indicator in quota_indicators)
AnyIndicatorIn(indicators, error_str) ==
    \E k \in 1..Len(indicators) : Contains(error_str, indicators[k])

\* QuotaAwareLLM._is_quota_error(error), error given by str(error).
llm_is_quota_error(error) ==
    LET error_str == Lower(error)
    IN  AnyIndicatorIn(llm_quota_indicators, error_str)

\* int(match.group(1)) inside the try block of an extractor: int() raises
\* ValueError on a string of more than 4300 digits, `except Exception`
\* catches it and the extractor returns None.
int_max_str_digits == 4300

IntOrNone(d) == IF Len(d) > int_max_str_digits THEN None ELSE Some(ParseInt(d))

\* seconds_patterns of QuotaAwareLLM._extract_retry_delay, tried in order
\* under re.IGNORECASE: the first that matches gives the result.
llm_alternative_patterns(s) ==
    LET p1 == SearchSeconds(s, TRUE)
        p2 == SearchLazyNumber(s, "retry")
        p3 == SearchLazyNumber(s, "wait")
    IN  IF p1 # "" THEN IntOrNone(p1)
        ELSE IF p2 # "" THEN IntOrNone(p2)
        ELSE IF p3 # "" THEN IntOrNone(p3)
        ELSE None

\* Variant: the looser patterns tried before the explicit one.
llm_extract_retry_delay_loose_first(s) ==
    LET m == SearchRetryDelay(s)
        alt == llm_alternative_patterns(s)
    IN  IF alt # None THEN alt
        ELSE IF m # "" THEN IntOrNone(m) ELSE None

\* QuotaAwareLLM._extract_retry_delay(error_message).
llm_extract_retry_delay(s) ==
    LET m == SearchRetryDelay(s)
    IN  IF m # "" THEN IntOrNone(m) ELSE llm_alternative_patterns(s)

\* Python's truth value of an Optional[int]: None and 0 are false.
Truthy(opt) == opt # None /\ opt[1] # 0

\* Variant: the default wait without its 10 s of buffer.
llm_handle_quota_error_default_60(error_str) ==
    LET retry_delay == llm_extract_retry_delay(error_str)
    IN  IF Truthy(retry_delay) THEN retry_delay[1] + retry_buffer
        ELSE llm_default_wait - retry_buffer

\* QuotaAwareLLM._handle_quota_error(error): the wait in seconds.
llm_handle_quota_error(error_str) ==
    LET retry_delay == llm_extract_retry_delay(error_str)
    IN  IF Truthy(retry_delay) THEN retry_delay[1] + retry_buffer
        ELSE llm_default_wait

\* The error QuotaAwareLLM.invoke/_generate raise on the last quota failure.
llm_exhausted_text ==
    "Google API quota exceeded after " \o IntToStr(max_quota_retries) \o " attempts. "
    \o "Please check your quota at https://ai.google.dev/gemini-api/docs/rate-limits or try again later."

---------------------------------------------------------------------------
(* EnhancedNewsCrew: classifier, extractor, wait policy (src/crew.py).     *)

max_retries == 5
base_retry_delay == 30
max_retry_delay == 300

crew_quota_indicators ==
    << "429", "quota", "rate limit", "resourceexhausted",
       "exceeded your current quota", "rate-limits" >>

\* EnhancedNewsCrew._is_quota_error(error_message).
crew_is_quota_error(error) ==
    LET error_lower == Lower(error)
    IN  AnyIndicatorIn(crew_quota_indicators, error_lower)

\* EnhancedNewsCrew._extract_retry_delay(error_message): both patterns are
\* searched case-sensitively.
crew_extract_retry_delay(s) ==
    LET m == SearchRetryDelay(s)
        m2 == SearchSeconds(s, FALSE)
    IN  IF m # "" THEN IntOrNone(m)
        ELSE IF m2 # "" THEN IntOrNone(m2)
        ELSE None

RECURSIVE Pow2(_)
Pow2(n) == IF n = 0 THEN 1 ELSE 2 * Pow2(n - 1)

Min(a, b) == IF a <= b THEN a ELSE b

\* Variant: the exponential wait without its cap.
crew_calculate_wait_time_uncapped(a, error) ==
    LET api_retry_delay == crew_extract_retry_delay(error)
    IN  IF Truthy(api_retry_delay) THEN api_retry_delay[1] + retry_buffer
        ELSE base_retry_delay * Pow2(a)

\* EnhancedNewsCrew._calculate_wait_time(attempt, error_message).
crew_calculate_wait_time(a, error) ==
    LET api_retry_delay == crew_extract_retry_delay(error)
    IN  IF Truthy(api_retry_delay) THEN api_retry_delay[1] + retry_buffer
        ELSE Min(base_retry_delay * Pow2(a), max_retry_delay)

\* The error EnhancedNewsCrew.execute_with_retry raises on the last quota failure.
crew_exhausted_text ==
    "Google API quota exceeded after " \o IntToStr(max_retries) \o " attempts. "
    \o "Please check your API quota and billing at https://ai.google.dev/gemini-api/docs/rate-limits. "
    \o "Consider upgrading your plan or trying again later."

---------------------------------------------------------------------------
(* SpecPure: the classifiers, the extractors and the wait policies, each   *)
(* applied once to an error text drawn from ErrorTexts.                    *)

MaxAttemptArg == 5

\* Letter-casings of a phrase.
Title(p) == IF p = "" THEN "" ELSE UpperChar(Head(p)) \o Tail(p)

RECURSIVE Alternate(_, _)
Alternate(p, up) ==
    IF p = "" THEN ""
    ELSE (IF up THEN UpperChar(Head(p)) ELSE LowerChar(Head(p))) \o Alternate(Tail(p), ~up)

Casings(p) == {p, Upper(p), Title(p), Alternate(p, TRUE), Alternate(p, FALSE)}

\* The seven indicator phrases of the specification (section 4.2).
SevenIndicators ==
    { "429", "quota", "rate limit", "resourceexhausted",
      "exceeded your current quota", "rate-limits", "too many requests" }

IndicatorPrefixes == {"", "API error: "}
IndicatorSuffixes == {"", " (request id 7f3a)"}

\* Texts that hold an indicator phrase, in some letter case.
WithIndicator ==
    { pre \o c \o post :
        pre \in IndicatorPrefixes, post \in IndicatorSuffixes,
        c \in UNION {Casings(ind) : ind \in SevenIndicators} }

\* Texts that hold none (near misses included).
IndicatorFree ==
    { "", "invalid argument: field x required", "Connection reset by peer",
      "rate-limit", "ratelimit", "rate  limit", "too many request", "TooManyRequests",
      "resource exhausted", "quot a", "42 9", "HTTP 500", "please wait 17 seconds" }

ExplicitPrefixes == {"", "429 Quota exceeded. ", "Waited seconds: 7 so far. ", "Please wait 5 seconds. "}
ExplicitSuffixes == {"", " [violations { count: 3 }]", "; next window in 9 seconds"}

\* Texts that hold the explicit form with N = 42.
WithExplicit42 ==
    { pre \o "retry_delay { seconds: 42 }" \o post :
        pre \in ExplicitPrefixes, post \in ExplicitSuffixes }

LoosePrefixes == {"", "429 Too Many Requests: ", "Quota exceeded, "}
LooseSuffixes == {"", ".", " before you retry"}

\* Texts that hold the looser phrasing with N = 17.
WithWait17 ==
    { pre \o "please wait 17 seconds" \o post :
        pre \in LoosePrefixes, post \in LooseSuffixes }

\* Texts with no numeric hint of a delay.
NoNumericHint ==
    { "", "quota exceeded", "Too Many Requests", "please wait a few seconds",
      "retry_delay { seconds: soon }", "retry later", "429 Resource has been exhausted",
      "invalid argument: field x required", "seconds: \n", "wait\n5 seconds" }

DelayValues == {0, 1, 42, 300}

\* Texts from which a delay N is extracted, for several N and several forms.
WithDelay ==
    UNION { { "429 quota exceeded. retry_delay { seconds: " \o IntToStr(n) \o " }",
              "retry_delay{seconds:" \o IntToStr(n) \o "}",
              "quota exceeded; seconds: " \o IntToStr(n),
              "Quota exceeded, Retry in " \o IntToStr(n) \o " seconds",
              "rate limit: wait " \o IntToStr(n) \o " second(s)",
              "429 retry_delay{seconds:" \o IntToStr(n) \o "}",
              "quota exceeded; seconds:" \o IntToStr(n) } : n \in DelayValues }

ErrorTexts ==
    WithIndicator \cup IndicatorFree \cup WithExplicit42 \cup WithWait17
        \cup NoNumericHint \cup WithDelay

PureFunctions ==
    { "llm._is_quota_error", "llm._extract_retry_delay", "llm._handle_quota_error",
      "crew._is_quota_error", "crew._extract_retry_delay", "crew._calculate_wait_time" }

\* The limiter and the driver as constructed (no run started).
IdleLimiter ==
    /\ limiter = "llm"
    /\ requests_per_minute = llm_requests_per_minute
    /\ request_times = <<>>
    /\ now = 0
    /\ recorded = <<>>
    /\ requests = <<>>
    /\ acquires = 0
    /\ elapses = 0

NoException == [origin |-> "none", text |-> ""]

IdleDriver ==
    /\ driver = "none"
    /\ pc = "idle"
    /\ attempt = 0
    /\ wait_time = 0
    /\ exc = NoException
    /\ result = ""
    /\ log = <<>>

\* The module-level objects of config.py, in the order it builds them.
ConfigObjects == {"llm", "_embedding_rate_limiter", "embedding_function"}

\* A process whose imports went through, with the search key configured,
\* before main is entered.
IdleProcess ==
    /\ environ = <<"key">>
    /\ dotenv_file = <<>>
    /\ google_api_key = <<"key">>
    /\ constructed = ConfigObjects
    /\ search_enabled = TRUE
    /\ topic = <<>>
    /\ crew = "None"
    /\ prompt = "none"
    /\ candidate = ""
    /\ banner = ""
    /\ exit_status = <<>>

\* (Where the LLM client does not act, strict_setattr plays no part: it is
\* set to what langchain_google_genai ships, a pydantic model.)
InitPure ==
    /\ strict_setattr = TRUE
    /\ half = 0
    /\ fn = "none"
    /\ error_message \in ErrorTexts
    /\ attempt_arg = 0
    /\ ret = None
    /\ IdleLimiter
    /\ IdleDriver
    /\ IdleProcess

ApplyLLMIsQuotaError ==
    /\ fn = "none"
    /\ fn' = "llm._is_quota_error"
    /\ ret' = llm_is_quota_error(error_message)
    /\ UNCHANGED <<error_message, attempt_arg, limVars, drvVars, procVars>>

ApplyLLMExtractRetryDelay ==
    /\ fn = "none"
    /\ fn' = "llm._extract_retry_delay"
    /\ ret' = llm_extract_retry_delay(error_message)
    /\ UNCHANGED <<error_message, attempt_arg, limVars, drvVars, procVars>>

ApplyLLMHandleQuotaError ==
    /\ fn = "none"
    /\ fn' = "llm._handle_quota_error"
    /\ ret' = llm_handle_quota_error(error_message)
    /\ UNCHANGED <<error_message, attempt_arg, limVars, drvVars, procVars>>

ApplyCrewIsQuotaError ==
    /\ fn = "none"
    /\ fn' = "crew._is_quota_error"
    /\ ret' = crew_is_quota_error(error_message)
    /\ UNCHANGED <<error_message, attempt_arg, limVars, drvVars, procVars>>

ApplyCrewExtractRetryDelay ==
    /\ fn = "none"
    /\ fn' = "crew._extract_retry_delay"
    /\ ret' = crew_extract_retry_delay(error_message)
    /\ UNCHANGED <<error_message, attempt_arg, limVars, drvVars, procVars>>

ApplyCrewCalculateWaitTime ==
    \E a \in 0..MaxAttemptArg :
        /\ fn = "none"
        /\ fn' = "crew._calculate_wait_time"
        /\ attempt_arg' = a
        /\ ret' = crew_calculate_wait_time(a, error_message)
        /\ UNCHANGED <<error_message, limVars, drvVars, procVars>>

NextPure ==
    \/ ApplyLLMIsQuotaError
    \/ ApplyLLMExtractRetryDelay
    \/ ApplyLLMHandleQuotaError
    \/ ApplyCrewIsQuotaError
    \/ ApplyCrewExtractRetryDelay
    \/ ApplyCrewCalculateWaitTime

SpecPure == InitPure /\ [][NextPure]_vars

---------------------------------------------------------------------------
(* The rate limiters: QuotaAwareLLM._wait_for_rate_limit,                  *)
(* EmbeddingRateLimiter.wait_for_rate_limit (src/config.py) and            *)
(* RateLimitedTool._wait_for_rate_limit (src/tools.py).                    *)

window_seconds == 60
embedding_requests_per_minute == 8
llm_rate_buffer == 3
embedding_rate_buffer == 2
tool_rate_buffer == 3
tool_call_delay == 2

\* The request history is kept in half-seconds: embed_query sleeps 0.5 s
\* between the limiter and the provider call.
ticks_per_second == 2
Ticks(seconds) == ticks_per_second * seconds

MaxExtraCalls == 2
MaxElapses == 3

\* Ceilings a RateLimitedTool is constructed with: the default, News DB
\* Tool, Get News Tool, the search tool, and the smallest legal one.
ToolCeilings == {1, 2, 3, 5, 6}

\* How much later than asked a sleep may return, and how long the caller
\* may stay away between two calls.
Overshoots == {0, 1}
Gaps == {1, 30, 60}

\* Variant: a timestamp exactly one minute old is kept: >= instead of >.
Pruned_keeps_cutoff(times, current_time) ==
    LET cutoff_time == current_time - window_seconds
        Keep(req_time) == req_time >= cutoff_time
    IN  SelectSeq(times, Keep)

\* [req_time for req_time in self.request_times if req_time > cutoff_time]
Pruned(times, current_time) ==
    LET cutoff_time == current_time - window_seconds
        Keep(req_time) == req_time > cutoff_time
    IN  SelectSeq(times, Keep)

\* min(self.request_times), of a non-empty list.
Oldest(times) ==
    CHOOSE t \in {times[i] : i \in DOMAIN times} :
        \A i \in DOMAIN times : t <= times[i]

\* Variant: the ceiling test off by one: > instead of >=.
RateLimitSleep_off_by_one(kept, ceiling, current_time, buffer) ==
    IF Len(kept) > ceiling
    THEN LET wait_seconds == Oldest(kept) + window_seconds - current_time
         IN  IF wait_seconds > 0 THEN wait_seconds + buffer ELSE 0
    ELSE 0

\* The seconds the limiter sleeps before it records: 0 when under the
\* ceiling, else wait_seconds + buffer when wait_seconds > 0.
RateLimitSleep(kept, ceiling, current_time, buffer) ==
    IF Len(kept) >= ceiling
    THEN LET oldest_request == Oldest(kept)
             wait_until == oldest_request + window_seconds
             wait_seconds == wait_until - current_time
         IN  IF wait_seconds > 0 THEN wait_seconds + buffer ELSE 0
    ELSE 0

\* One acquire(): prune, sleep if at the ceiling, sleep `delay` more, then
\* append datetime.now().  `over` is the time by which the rate-limit
\* sleep overran (time.sleep returns no earlier than asked).
WaitForRateLimit(buffer, delay, over) ==
    LET current_time == now
        kept == Pruned(request_times, current_time)
        slept == RateLimitSleep(kept, requests_per_minute, current_time, buffer)
        recorded_at == current_time + slept + (IF slept > 0 THEN over ELSE 0) + delay
    IN  /\ now' = recorded_at
        /\ request_times' = Append(kept, recorded_at)
        /\ recorded' = Append(recorded, recorded_at)
        /\ acquires' = acquires + 1
        /\ UNCHANGED <<limiter, requests_per_minute, strict_setattr, half, elapses>>

llm_wait_for_rate_limit(over) == WaitForRateLimit(llm_rate_buffer, 0, over)

\* What str() gives for the ValueError of `self.request_times = [...]`
\* (line 57 of config.py) when the base class refuses the assignment:
\* __init__ went round it with object.__setattr__, _wait_for_rate_limit
\* does not.
setattr_error_text == "\"QuotaAwareLLM\" object has no field \"request_times\""

\* The exception an acquire() raises to its caller.
Refused(e) == [origin |-> "limiter", text |-> e]
embedding_wait_for_rate_limit(over) == WaitForRateLimit(embedding_rate_buffer, 0, over)
tool_wait_for_rate_limit(over) == WaitForRateLimit(tool_rate_buffer, tool_call_delay, over)

InitLimiter ==
    /\ \/ limiter = "llm" /\ requests_per_minute = llm_requests_per_minute
                           /\ strict_setattr \in BOOLEAN
       \/ limiter = "embedding" /\ requests_per_minute = embedding_requests_per_minute
                                 /\ strict_setattr = TRUE
       \/ limiter = "tool" /\ requests_per_minute \in ToolCeilings
                            /\ strict_setattr = TRUE
    /\ half = 0
    /\ request_times = <<>>
    /\ now = 0
    /\ recorded = <<>>
    /\ requests = <<>>
    /\ acquires = 0
    /\ elapses = 0
    /\ fn = "none" /\ error_message = "" /\ attempt_arg = 0 /\ ret = None
    /\ IdleDriver
    /\ IdleProcess

MoreCalls == acquires < requests_per_minute + MaxExtraCalls

\* llm._wait_for_rate_limit() called from outside a driver.  Where the
\* base class refuses the assignment, the pruning statement raises before
\* anything is slept or appended.
LLMAcquire ==
    /\ limiter = "llm" /\ MoreCalls
    /\ IF strict_setattr
       THEN /\ acquires' = acquires + 1
            /\ exc' = Refused(setattr_error_text)
            /\ UNCHANGED <<limiter, requests_per_minute, strict_setattr, half, request_times,
                           now, recorded, elapses>>
       ELSE /\ \E over \in Overshoots : llm_wait_for_rate_limit(over)
            /\ exc' = exc
    /\ UNCHANGED <<requests, pureVars, driver, pc, attempt, wait_time, result, log, procVars>>

EmbeddingAcquire ==
    /\ limiter = "embedding" /\ MoreCalls
    /\ \E over \in Overshoots : embedding_wait_for_rate_limit(over)
    /\ UNCHANGED <<requests, pureVars, drvVars, procVars>>

ToolAcquire ==
    /\ limiter = "tool" /\ MoreCalls
    /\ \E over \in Overshoots : tool_wait_for_rate_limit(over)
    /\ UNCHANGED <<requests, pureVars, drvVars, procVars>>

\* The caller does something else for a while.
Elapse ==
    \E gap \in Gaps :
        /\ elapses < MaxElapses
        /\ now' = now + gap
        /\ elapses' = elapses + 1
        /\ UNCHANGED <<limiter, requests_per_minute, strict_setattr, half, request_times,
                       recorded, requests, acquires, pureVars, drvVars, procVars>>

NextLimiter == LLMAcquire \/ EmbeddingAcquire \/ ToolAcquire \/ Elapse

SpecLimiter == InitLimiter /\ [][NextLimiter]_vars

---------------------------------------------------------------------------
(* The retry drivers: QuotaAwareLLM.invoke and _generate (src/config.py),  *)
(* EnhancedNewsCrew.execute_with_retry (src/crew.py).  One run of one      *)
(* driver on freshly constructed objects; the wrapped operation returns a  *)
(* value or raises an error, as the environment decides.  Time passes only *)
(* in the sleeps of the code.                                              *)

initial_delay == 10
progressive_base == 15
progressive_step == 10

LLMDrivers == {"invoke", "_generate"}
CrewDriver == "execute_with_retry"

\* What the wrapped operation may return, and the errors it may raise.
Results == {"report A", "report B"}

\* The last one is the aggregate error of the LLM-level driver, which the
\* operation raises when it runs through such a driver itself (a crew run
\* calls llm.invoke; invoke runs through _generate).
OperationErrors ==
    { "429 Resource has been exhausted (e.g. check quota).",
      "429 You exceeded your current quota. retry_delay { seconds: 42 }",
      "Too Many Requests",
      "Invalid argument: field x required",
      llm_exhausted_text }

Event(e, k, t) == [ev |-> e, n |-> k, text |-> t]

\* The exception object the operation raised, re-raised as it is.
Reraised(e) == [origin |-> "operation", text |-> e]
\* A new exception the driver constructs.
Constructed(t) == [origin |-> "driver", text |-> t]

\* The raise after the for loop.
LLMFallThroughText(d) ==
    IF d = "invoke" THEN "Failed to invoke LLM after maximum attempts"
    ELSE "Failed to generate LLM response after maximum attempts"

crew_fall_through_text == "Failed to execute crew after maximum retry attempts"

\* _countdown_wait(wait_seconds): one time.sleep(1) for each remaining in
\* range(wait_seconds, 0, -1); the seconds slept in all.
CountdownWait(wait_seconds) ==
    IF wait_seconds > 0 THEN wait_seconds ELSE 0

\* for attempt in range(self.max_quota_retries): entering the loop.
LLMStart(d) ==
    /\ pc = "idle"
    /\ driver' = d
    /\ attempt' = 0
    /\ IF 0 < max_quota_retries
       THEN pc' = "acquire" /\ exc' = exc
       ELSE pc' = "raised" /\ exc' = Constructed(LLMFallThroughText(d))
    /\ UNCHANGED <<wait_time, result, log, limVars, pureVars, procVars>>

\* self._wait_for_rate_limit(), the first statement of the try block.
\* Where the base class refuses the assignment of line 57, the ValueError
\* is raised inside the try and `except Exception` handles it as it
\* handles an error of the provider call: classified, and when taken for
\* a quota error, waited for and retried, or answered with the aggregate
\* error at the last attempt.  No request goes to the provider.
LLMWaitForRateLimit(d) ==
    /\ driver = d /\ pc = "acquire"
    /\ IF strict_setattr
       THEN LET e == setattr_error_text
                raised == << Event("acquire", attempt, ""), Event("refused", attempt, e) >>
            IN  /\ acquires' = acquires + 1
                /\ IF llm_is_quota_error(e)
                   THEN IF attempt < max_quota_retries - 1
                        THEN /\ wait_time' = llm_handle_quota_error(e)
                             /\ request_times' = <<>>
                             /\ pc' = "countdown"
                             /\ exc' = exc
                             /\ log' = log \o raised
                                           \o << Event("backoff", llm_handle_quota_error(e), ""),
                                                 Event("clear", attempt, "") >>
                        ELSE /\ pc' = "raised"
                             /\ exc' = Constructed(llm_exhausted_text)
                             /\ log' = log \o raised
                             /\ UNCHANGED <<wait_time, request_times>>
                   ELSE /\ pc' = "raised"
                        /\ exc' = Reraised(e)
                        /\ log' = log \o raised
                        /\ UNCHANGED <<wait_time, request_times>>
                /\ UNCHANGED <<limiter, requests_per_minute, strict_setattr, half, now,
                               recorded, elapses>>
       ELSE /\ \E over \in Overshoots : llm_wait_for_rate_limit(over)
            /\ pc' = "call"
            /\ log' = Append(log, Event("acquire", attempt, ""))
            /\ UNCHANGED <<wait_time, exc>>
    /\ UNCHANGED <<driver, attempt, result, requests, pureVars, procVars>>

\* super().invoke(...) / super()._generate(...) returns v: return result.
LLMCallReturns(d, v) ==
    /\ driver = d /\ pc = "call"
    /\ result' = v
    /\ pc' = "returned"
    /\ log' = log \o << Event("call", attempt, ""), Event("return", attempt, v) >>
    /\ requests' = Append(requests, Ticks(now))
    /\ UNCHANGED <<driver, attempt, wait_time, exc, limiter, requests_per_minute,
                   strict_setattr, half, request_times, now, recorded, acquires, elapses,
                   pureVars, procVars>>

\* Variant: a quota error is retried at once, the countdown left out.
LLMCallRaises_no_wait(d, e) ==
    /\ driver = d /\ pc = "call"
    /\ IF llm_is_quota_error(e) /\ attempt < max_quota_retries - 1
       THEN /\ pc' = "acquire"
            /\ attempt' = attempt + 1
            /\ request_times' = <<>>
            /\ exc' = exc
            /\ log' = log \o << Event("call", attempt, ""), Event("error", attempt, e),
                                Event("clear", attempt, "") >>
       ELSE /\ pc' = "raised"
            /\ exc' = IF llm_is_quota_error(e) THEN Constructed(llm_exhausted_text) ELSE Reraised(e)
            /\ log' = log \o << Event("call", attempt, ""), Event("error", attempt, e) >>
            /\ UNCHANGED <<attempt, request_times>>
    /\ requests' = Append(requests, Ticks(now))
    /\ UNCHANGED <<driver, result, wait_time, limiter, requests_per_minute, strict_setattr,
                   half, now, recorded, acquires, elapses, pureVars, procVars>>

\* Variant: the budget test off by one: attempt < max_quota_retries.
LLMCallRaises_off_by_one(d, e) ==
    /\ driver = d /\ pc = "call"
    /\ IF llm_is_quota_error(e)
       THEN IF attempt < max_quota_retries
            THEN /\ wait_time' = llm_handle_quota_error(e)
                 /\ request_times' = <<>>
                 /\ pc' = "countdown"
                 /\ exc' = exc
                 /\ log' = log \o << Event("call", attempt, ""), Event("error", attempt, e),
                                     Event("backoff", llm_handle_quota_error(e), ""),
                                     Event("clear", attempt, "") >>
            ELSE /\ pc' = "raised"
                 /\ exc' = Constructed(llm_exhausted_text)
                 /\ log' = log \o << Event("call", attempt, ""), Event("error", attempt, e) >>
                 /\ UNCHANGED <<wait_time, request_times>>
       ELSE /\ pc' = "raised"
            /\ exc' = Reraised(e)
            /\ log' = log \o << Event("call", attempt, ""), Event("error", attempt, e) >>
            /\ UNCHANGED <<wait_time, request_times>>
    /\ requests' = Append(requests, Ticks(now))
    /\ UNCHANGED <<driver, attempt, result, limiter, requests_per_minute, strict_setattr, half,
                   now, recorded, acquires, elapses, pureVars, procVars>>

\* Variant: the request history is not cleared before the countdown.
LLMCallRaises_keep_history(d, e) ==
    /\ driver = d /\ pc = "call"
    /\ IF llm_is_quota_error(e)
       THEN IF attempt < max_quota_retries - 1
            THEN /\ wait_time' = llm_handle_quota_error(e)
                 /\ pc' = "countdown"
                 /\ exc' = exc
                 /\ log' = log \o << Event("call", attempt, ""), Event("error", attempt, e),
                                     Event("backoff", llm_handle_quota_error(e), "") >>
            ELSE /\ pc' = "raised"
                 /\ exc' = Constructed(llm_exhausted_text)
                 /\ log' = log \o << Event("call", attempt, ""), Event("error", attempt, e) >>
                 /\ UNCHANGED wait_time
       ELSE /\ pc' = "raised"
            /\ exc' = Reraised(e)
            /\ log' = log \o << Event("call", attempt, ""), Event("error", attempt, e) >>
            /\ UNCHANGED wait_time
    /\ requests' = Append(requests, Ticks(now))
    /\ UNCHANGED <<driver, attempt, result, limiter, requests_per_minute, strict_setattr, half,
                   request_times, now, recorded, acquires, elapses, pureVars, procVars>>

\* Variant: the request history is cleared on every error.
LLMCallRaises_clear_always(d, e) ==
    /\ driver = d /\ pc = "call"
    /\ request_times' = <<>>
    /\ IF llm_is_quota_error(e)
       THEN IF attempt < max_quota_retries - 1
            THEN /\ wait_time' = llm_handle_quota_error(e)
                 /\ pc' = "countdown"
                 /\ exc' = exc
                 /\ log' = log \o << Event("call", attempt, ""), Event("error", attempt, e),
                                     Event("backoff", llm_handle_quota_error(e), ""),
                                     Event("clear", attempt, "") >>
            ELSE /\ pc' = "raised"
                 /\ exc' = Constructed(llm_exhausted_text)
                 /\ log' = log \o << Event("call", attempt, ""), Event("error", attempt, e) >>
                 /\ UNCHANGED wait_time
       ELSE /\ pc' = "raised"
            /\ exc' = Reraised(e)
            /\ log' = log \o << Event("call", attempt, ""), Event("error", attempt, e) >>
            /\ UNCHANGED wait_time
    /\ requests' = Append(requests, Ticks(now))
    /\ UNCHANGED <<driver, attempt, result, limiter, requests_per_minute, strict_setattr, half,
                   now, recorded, acquires, elapses, pureVars, procVars>>

\* super().invoke(...) / super()._generate(...) raises e: the except block.
LLMCallRaises(d, e) ==
    /\ driver = d /\ pc = "call"
    /\ IF llm_is_quota_error(e)
       THEN IF attempt < max_quota_retries - 1
            THEN \* wait_time = self._handle_quota_error(e); request_times = []
                 /\ wait_time' = llm_handle_quota_error(e)
                 /\ request_times' = <<>>
                 /\ pc' = "countdown"
                 /\ exc' = exc
                 /\ log' = log \o << Event("call", attempt, ""), Event("error", attempt, e),
                                     Event("backoff", llm_handle_quota_error(e), ""),
                                     Event("clear", attempt, "") >>
            ELSE \* raise Exception("Google API quota exceeded after ...")
                 /\ pc' = "raised"
                 /\ exc' = Constructed(llm_exhausted_text)
                 /\ log' = log \o << Event("call", attempt, ""), Event("error", attempt, e) >>
                 /\ UNCHANGED <<wait_time, request_times>>
       ELSE \* raise
            /\ pc' = "raised"
            /\ exc' = Reraised(e)
            /\ log' = log \o << Event("call", attempt, ""), Event("error", attempt, e) >>
            /\ UNCHANGED <<wait_time, request_times>>
    /\ requests' = Append(requests, Ticks(now))
    /\ UNCHANGED <<driver, attempt, result, limiter, requests_per_minute, strict_setattr, half,
                   now, recorded, acquires, elapses, pureVars, procVars>>

\* self._countdown_wait(wait_time); continue.
LLMCountdownWait(d) ==
    /\ driver = d /\ pc = "countdown"
    /\ now' = now + CountdownWait(wait_time)
    /\ log' = Append(log, Event("countdown", wait_time, ""))
    /\ attempt' = attempt + 1
    /\ IF attempt + 1 < max_quota_retries
       THEN pc' = "acquire" /\ exc' = exc
       ELSE pc' = "raised" /\ exc' = Constructed(LLMFallThroughText(d))
    /\ UNCHANGED <<driver, wait_time, result, limiter, requests_per_minute, strict_setattr,
                   half, request_times, recorded, requests, acquires, elapses, pureVars,
                   procVars>>

\* execute_with_retry with a crew at hand (create_news_crew gave one):
\* time.sleep(10), then the loop is entered.
CrewStart ==
    /\ pc = "idle"
    /\ driver' = CrewDriver
    /\ now' = now + initial_delay
    /\ log' = Append(log, Event("sleep", initial_delay, "initial"))
    /\ attempt' = 0
    /\ IF 0 < max_retries
       THEN pc' = "call" /\ exc' = exc
       ELSE pc' = "raised" /\ exc' = Constructed(crew_fall_through_text)
    /\ UNCHANGED <<wait_time, result, limiter, requests_per_minute, strict_setattr, half,
                   request_times, recorded, requests, acquires, elapses, pureVars, procVars>>

\* Variant: the pre-execution delay is slept before the crew is looked at.
CrewStartCancelled_after_delay ==
    /\ pc = "idle"
    /\ driver' = CrewDriver
    /\ now' = now + initial_delay
    /\ log' = Append(log, Event("sleep", initial_delay, "initial"))
    /\ pc' = "cancelled"
    /\ result' = "None"
    /\ UNCHANGED <<attempt, wait_time, exc, limiter, requests_per_minute, strict_setattr, half,
                   request_times, recorded, requests, acquires, elapses, pureVars, procVars>>

\* execute_with_retry when create_news_crew returns None (no topic given):
\* return None.
CrewStartCancelled ==
    /\ pc = "idle"
    /\ driver' = CrewDriver
    /\ pc' = "cancelled"
    /\ result' = "None"
    /\ UNCHANGED <<attempt, wait_time, exc, log, limVars, pureVars, procVars>>

\* Variant: the delay computed from the index of the failed attempt.
ProgressiveDelay_failed_attempt(a) ==
    IF a > 0 THEN progressive_base + ((a - 1) * progressive_step) ELSE 0

\* delay = 15 + (attempt * 10), slept before every attempt but the first.
ProgressiveDelay(a) == IF a > 0 THEN progressive_base + (a * progressive_step) ELSE 0

ProgressiveEvents(a) ==
    IF a > 0 THEN << Event("sleep", ProgressiveDelay(a), "progressive") >> ELSE << >>

\* self.crew.kickoff() returns v: return result.
CrewKickoffReturns(v) ==
    /\ driver = CrewDriver /\ pc = "call"
    /\ now' = now + ProgressiveDelay(attempt)
    /\ result' = v
    /\ pc' = "returned"
    /\ log' = log \o ProgressiveEvents(attempt)
                  \o << Event("call", attempt, ""), Event("return", attempt, v) >>
    /\ UNCHANGED <<driver, attempt, wait_time, exc, limiter, requests_per_minute,
                   strict_setattr, half, request_times, recorded, requests, acquires, elapses,
                   pureVars, procVars>>

\* Variant: every error is taken for a quota error.
CrewKickoffRaises_retry_all(e) ==
    /\ driver = CrewDriver /\ pc = "call"
    /\ now' = now + ProgressiveDelay(attempt)
    /\ log' = log \o ProgressiveEvents(attempt)
                  \o << Event("call", attempt, ""), Event("error", attempt, e) >>
    /\ IF attempt < max_retries - 1
       THEN /\ wait_time' = crew_calculate_wait_time(attempt, e)
            /\ pc' = "countdown"
            /\ exc' = exc
       ELSE /\ pc' = "raised"
            /\ exc' = Constructed(crew_exhausted_text)
            /\ UNCHANGED wait_time
    /\ UNCHANGED <<driver, attempt, result, limiter, requests_per_minute, strict_setattr, half,
                   request_times, recorded, requests, acquires, elapses, pureVars, procVars>>

\* self.crew.kickoff() raises e: the except block.
CrewKickoffRaises(e) ==
    /\ driver = CrewDriver /\ pc = "call"
    /\ now' = now + ProgressiveDelay(attempt)
    /\ log' = log \o ProgressiveEvents(attempt)
                  \o << Event("call", attempt, ""), Event("error", attempt, e) >>
    /\ IF crew_is_quota_error(e)
       THEN IF attempt < max_retries - 1
            THEN \* wait_time = self._calculate_wait_time(attempt, error_str)
                 /\ wait_time' = crew_calculate_wait_time(attempt, e)
                 /\ pc' = "countdown"
                 /\ exc' = exc
            ELSE \* raise Exception("Google API quota exceeded after ...")
                 /\ pc' = "raised"
                 /\ exc' = Constructed(crew_exhausted_text)
                 /\ UNCHANGED wait_time
       ELSE \* raise
            /\ pc' = "raised"
            /\ exc' = Reraised(e)
            /\ UNCHANGED wait_time
    /\ UNCHANGED <<driver, attempt, result, limiter, requests_per_minute, strict_setattr, half,
                   request_times, recorded, requests, acquires, elapses, pureVars, procVars>>

\* Variant: the loop variable is advanced twice for a retry.
CrewCountdownWait_skips_attempt ==
    /\ driver = CrewDriver /\ pc = "countdown"
    /\ now' = now + CountdownWait(wait_time)
    /\ log' = Append(log, Event("countdown", wait_time, ""))
    /\ attempt' = attempt + 2
    /\ IF attempt + 2 < max_retries
       THEN pc' = "call" /\ exc' = exc
       ELSE pc' = "raised" /\ exc' = Constructed(crew_fall_through_text)
    /\ UNCHANGED <<driver, wait_time, result, limiter, requests_per_minute, strict_setattr,
                   half, request_times, recorded, requests, acquires, elapses, pureVars,
                   procVars>>

\* self._countdown_wait(wait_time); continue.
CrewCountdownWait ==
    /\ driver = CrewDriver /\ pc = "countdown"
    /\ now' = now + CountdownWait(wait_time)
    /\ log' = Append(log, Event("countdown", wait_time, ""))
    /\ attempt' = attempt + 1
    /\ IF attempt + 1 < max_retries
       THEN pc' = "call" /\ exc' = exc
       ELSE pc' = "raised" /\ exc' = Constructed(crew_fall_through_text)
    /\ UNCHANGED <<driver, wait_time, result, limiter, requests_per_minute, strict_setattr,
                   half, request_times, recorded, requests, acquires, elapses, pureVars,
                   procVars>>

\* The start of a driver's run.  ChatGoogleGenerativeAI, the base class of
\* QuotaAwareLLM, is not part of src/.  As langchain_google_genai ships it,
\* a pydantic model, it refuses `self.request_times = [...]` (config.py:57;
\* strict_setattr = TRUE): invoke and _generate then never reach the
\* provider.  The start with strict_setattr = FALSE follows the loop of
\* invoke and _generate past acquire(), as config.py:146-230 is written.
\* It adds runs and removes none; no refutation of a claim rests on it.
Init ==
    /\ strict_setattr \in BOOLEAN
    /\ half = 0
    /\ fn = "none" /\ error_message = "" /\ attempt_arg = 0 /\ ret = None
    /\ IdleLimiter
    /\ IdleDriver
    /\ IdleProcess

Next ==
    \/ \E d \in LLMDrivers : LLMStart(d)
    \/ \E d \in LLMDrivers : LLMWaitForRateLimit(d)
    \/ \E d \in LLMDrivers, v \in Results : LLMCallReturns(d, v)
    \/ \E d \in LLMDrivers, e \in OperationErrors : LLMCallRaises(d, e)
    \/ \E d \in LLMDrivers : LLMCountdownWait(d)
    \/ CrewStart
    \/ CrewStartCancelled
    \/ \E v \in Results : CrewKickoffReturns(v)
    \/ \E e \in OperationErrors : CrewKickoffRaises(e)
    \/ CrewCountdownWait

Spec == Init /\ [][Next]_vars

\* The same runs in a process that keeps running: one blocking thread of
\* control, every sleep completes, every call of the operation returns or
\* raises.
FairSpec == Spec /\ WF_vars(Next)

---------------------------------------------------------------------------
(* The LLM client over several calls: invoke() and _generate() calls made  *)
(* one after the other on the one module-level instance `llm`, whose       *)
(* request_times outlives each call.                                       *)

MaxClientAcquires == 6

\* The errors the provider answers with in these runs: a quota error
\* without a delay, one with a delay of 42 s, and a fatal one.
ClientErrors ==
    { "429 Resource has been exhausted (e.g. check quota).",
      "429 You exceeded your current quota. retry_delay { seconds: 42 }",
      "Invalid argument: field x required" }

\* The caller makes its next call on the same client: the loop variables
\* of the finished call are gone, the limiter's state stays.
LLMNextCall ==
    /\ driver \in LLMDrivers
    /\ pc \in {"returned", "raised"}
    /\ acquires < MaxClientAcquires
    /\ driver' = "none"
    /\ pc' = "idle"
    /\ attempt' = 0
    /\ wait_time' = 0
    /\ exc' = NoException
    /\ result' = ""
    /\ log' = <<>>
    /\ UNCHANGED <<limVars, pureVars, procVars>>

NextLLMClient ==
    \/ \E d \in LLMDrivers : LLMStart(d)
    \/ \E d \in LLMDrivers : LLMWaitForRateLimit(d)
    \/ \E d \in LLMDrivers, v \in Results : LLMCallReturns(d, v)
    \/ \E d \in LLMDrivers, e \in ClientErrors : LLMCallRaises(d, e)
    \/ \E d \in LLMDrivers : LLMCountdownWait(d)
    \/ LLMNextCall

SpecLLMClient == Init /\ [][NextLLMClient]_vars

---------------------------------------------------------------------------
(* The tools (src/tools.py): News DB Tool, Get News Tool and Search Tool,  *)
(* invoked one after the other.  `limiter` names the tool; request_times,  *)
(* requests_per_minute and recorded are those of its module-level          *)
(* instance (search_news_db, get_news, serper_tool_instance); requests     *)
(* holds the instants at which an invocation passed _wait_for_rate_limit.  *)

news_db_requests_per_minute == 2
get_news_requests_per_minute == 6
serper_requests_per_minute == 5
serper_call_delay == 2

\* time.sleep(5) before Chroma.from_documents and time.sleep(3) before its
\* similarity_search (SearchNewsDB.news); time.sleep(1) before Chroma(...)
\* and time.sleep(1) before its similarity_search (GetNews.news).
news_db_index_delay == 5
news_db_search_delay == 3
get_news_open_delay == 1
get_news_search_delay == 1

\* QuotaAwareEmbeddings (src/config.py), the embedding_function the tools
\* hand to Chroma: time.sleep(1) in embed_documents and time.sleep(0.5) in
\* embed_query before the provider call, in half-seconds, and
\* time.sleep(60) before the one retry after a quota error.
embedding_retry_wait == 60
embed_documents_delay == 2
embed_query_delay == 1

\* The half-seconds a call of Chroma spends in the embedding function: none
\* when the call ends before it reaches the function, the function's own
\* sleep, or that and the wait before its retry.
EmbedDocumentsTimes ==
    {0, embed_documents_delay, embed_documents_delay + Ticks(embedding_retry_wait)}
EmbedQueryTimes == {0, embed_query_delay, embed_query_delay + Ticks(embedding_retry_wait)}

\* The half-seconds the rest of an invocation takes after it was admitted,
\* as far as the sleeps of the code decide it.  News DB Tool: none when it
\* returns before indexing; time.sleep(5) and Chroma.from_documents when
\* that raises; those, time.sleep(3) and similarity_search when it goes on.
NewsDBRest ==
    {0} \cup { Ticks(news_db_index_delay) + d : d \in EmbedDocumentsTimes }
        \cup { Ticks(news_db_index_delay) + d + Ticks(news_db_search_delay) + q :
                    d \in EmbedDocumentsTimes, q \in EmbedQueryTimes }

\* Get News Tool: none when ./chroma_db does not exist; time.sleep(1) when
\* Chroma(...) raises; that, time.sleep(1) and similarity_search otherwise.
GetNewsRest ==
    {0, Ticks(get_news_open_delay)}
        \cup { Ticks(get_news_open_delay + get_news_search_delay) + q : q \in EmbedQueryTimes }

\* More invocations of a news tool, and more pauses between them, than these
\* are not followed.  Within them the tool's embedding calls stay under the
\* ceiling of _embedding_rate_limiter, which therefore adds no wait.
MaxExtraNewsCalls == 1
MaxNewsPauses == 1
MoreNewsCalls == acquires < requests_per_minute + MaxExtraNewsCalls

InitTools ==
    /\ strict_setattr = TRUE
    /\ half = 0
    /\ \/ limiter = "news_db" /\ requests_per_minute = news_db_requests_per_minute
       \/ limiter = "get_news" /\ requests_per_minute = get_news_requests_per_minute
       \/ limiter = "search" /\ requests_per_minute = serper_requests_per_minute
    /\ request_times = <<>>
    /\ now = 0
    /\ recorded = <<>>
    /\ requests = <<>>
    /\ acquires = 0
    /\ elapses = 0
    /\ fn = "none" /\ error_message = "" /\ attempt_arg = 0 /\ ret = None
    /\ IdleDriver
    /\ IdleProcess

\* instance = cls(); instance._wait_for_rate_limit(): the limiter runs on
\* the request_times of an instance constructed for this invocation, an
\* empty list; the module-level instance is not touched.
FreshInstanceInvoke(ceiling, rest) ==
    LET current_time == now
        instance_request_times == <<>>
        kept == Pruned(instance_request_times, current_time)
        slept == RateLimitSleep(kept, ceiling, current_time, tool_rate_buffer)
        recorded_at == Ticks(current_time) + half + Ticks(slept + tool_call_delay)
        returned_at == recorded_at + rest
    IN  /\ requests' = Append(requests, recorded_at)
        /\ now' = returned_at \div ticks_per_second
        /\ half' = returned_at % ticks_per_second
        /\ acquires' = acquires + 1
        /\ UNCHANGED <<limiter, requests_per_minute, strict_setattr, request_times, recorded,
                       elapses, pureVars, drvVars, procVars>>

\* SearchNewsDB.news(query)
SearchNewsDBNews ==
    /\ limiter = "news_db" /\ MoreNewsCalls
    /\ \E rest \in NewsDBRest : FreshInstanceInvoke(news_db_requests_per_minute, rest)

\* GetNews.news(query)
GetNewsNews ==
    /\ limiter = "get_news" /\ MoreNewsCalls
    /\ \E rest \in GetNewsRest : FreshInstanceInvoke(get_news_requests_per_minute, rest)

\* Variant: the search runs on an instance constructed for the call.
SerperSearch_fresh_instance(over) ==
    FreshInstanceInvoke(serper_requests_per_minute, Ticks(serper_call_delay))

\* serper_tool_instance.search(query), the instance enabled:
\* self._wait_for_rate_limit(), time.sleep(2), self.serper_wrapper.run(query).
SerperSearch(over) ==
    LET current_time == now
        kept == Pruned(request_times, current_time)
        slept == RateLimitSleep(kept, requests_per_minute, current_time, tool_rate_buffer)
        recorded_at == current_time + slept + (IF slept > 0 THEN over ELSE 0) + tool_call_delay
    IN  /\ request_times' = Append(kept, recorded_at)
        /\ recorded' = Append(recorded, recorded_at)
        /\ requests' = Append(requests, Ticks(recorded_at))
        /\ now' = recorded_at + serper_call_delay
        /\ acquires' = acquires + 1
        /\ UNCHANGED <<limiter, requests_per_minute, strict_setattr, half, elapses, pureVars,
                       drvVars, procVars>>

\* search_tool(query)
SearchTool ==
    /\ limiter = "search" /\ MoreCalls
    /\ \E over \in Overshoots : SerperSearch(over)

\* Time passes between two invocations.
ToolsElapse ==
    /\ limiter = "search" \/ elapses < MaxNewsPauses
    /\ Elapse

NextTools == SearchNewsDBNews \/ GetNewsNews \/ SearchTool \/ ToolsElapse

SpecTools == InitTools /\ [][NextTools]_vars

\* The Search Tool alone: the runs of SpecTools in which it is the tool.
InitSearchTool == InitTools /\ limiter = "search"

NextSearchTool == SearchTool \/ ToolsElapse

SpecSearchTool == InitSearchTool /\ [][NextSearchTool]_vars

---------------------------------------------------------------------------
(* QuotaAwareEmbeddings (src/config.py): embed_documents and embed_query,  *)
(* called one after the other; both pass the one process-wide              *)
(* _embedding_rate_limiter.  `log` holds the events of the last call.      *)
(* embed_query sleeps 0.5 s, so a call may start on a half-second: here    *)
(* request_times and recorded hold half-seconds, like requests.            *)

MaxEmbeddingCalls == 9
MaxEmbeddingRetries == 1

EmbeddingMethods == {"embed_documents", "embed_query"}

\* The attempt went through.
NoError == ""

\* What the provider may raise at the first attempt ('generate' holds
\* 'rate'), and at the second.
EmbeddingErrors ==
    { "429 Resource has been exhausted (e.g. check quota).",
      "Error: could not generate embedding",
      "Invalid argument: field x required" }
EmbeddingRetryErrors == { "429 Resource has been exhausted (e.g. check quota)." }

\* "429" in error_str or "quota" in error_str or "rate" in error_str
embedding_is_quota_error(e) ==
    LET error_str == Lower(e)
    IN  Contains(error_str, "429") \/ Contains(error_str, "quota") \/ Contains(error_str, "rate")

\* EmbeddingRateLimiter.wait_for_rate_limit, the pruning: the timestamps
\* newer than current_time - timedelta(minutes=1), all in half-seconds.
EmbeddingPruned(times, current_time) ==
    LET cutoff_time == current_time - Ticks(window_seconds)
        Keep(req_time) == req_time > cutoff_time
    IN  SelectSeq(times, Keep)

\* EmbeddingRateLimiter.wait_for_rate_limit, the sleep, in half-seconds:
\* none under the ceiling, else wait_seconds + 2 when wait_seconds > 0.
EmbeddingRateLimitSleep(kept, ceiling, current_time) ==
    IF Len(kept) >= ceiling
    THEN LET oldest_request == Oldest(kept)
             wait_until == oldest_request + Ticks(window_seconds)
             wait_seconds == wait_until - current_time
         IN  IF wait_seconds > 0 THEN wait_seconds + Ticks(embedding_rate_buffer) ELSE 0
    ELSE 0

\* One call of `method`: the limiter, the short sleep, the provider call
\* (answering `first`), and when `retried` the 60 s sleep and the second
\* provider call (answering `second`).  The provider answers at once, so
\* the call ends at the instant of its last request.
EmbedCallWith(retried, method, delay, over, first, second) ==
    LET current_time == Ticks(now) + half
        kept == EmbeddingPruned(request_times, current_time)
        slept == EmbeddingRateLimitSleep(kept, requests_per_minute, current_time)
        recorded_at == current_time + slept + Ticks(over)
        first_request == recorded_at + delay
        retry_request == first_request + Ticks(embedding_retry_wait)
        answered_at == IF retried THEN retry_request ELSE first_request
        returns == first = NoError \/ (retried /\ second = NoError)
        raised == IF retried THEN second ELSE first
    IN  /\ slept = 0 => over = 0    \* only a sleep that is made overruns
        /\ request_times' = Append(kept, recorded_at)
        /\ recorded' = Append(recorded, recorded_at)
        /\ acquires' = acquires + 1
        /\ requests' = requests \o (IF retried THEN <<first_request, retry_request>>
                                               ELSE <<first_request>>)
        /\ now' = answered_at \div ticks_per_second
        /\ half' = answered_at % ticks_per_second
        /\ driver' = method
        /\ pc' = IF returns THEN "returned" ELSE "raised"
        /\ result' = IF returns THEN "vectors" ELSE ""
        /\ exc' = IF returns THEN NoException ELSE Reraised(raised)
        /\ log' = << Event("acquire", 0, method), Event("request", first_request, "") >>
                  \o (IF first = NoError THEN << Event("return", 0, "vectors") >>
                      ELSE << Event("error", 0, first) >>)
                  \o (IF retried
                      THEN << Event("sleep", embedding_retry_wait, "retry"),
                              Event("request", retry_request, "") >>
                           \o (IF second = NoError THEN << Event("return", 1, "vectors") >>
                               ELSE << Event("error", 1, second) >>)
                      ELSE << >>)
        /\ UNCHANGED <<limiter, requests_per_minute, strict_setattr, elapses, attempt,
                       wait_time, pureVars, procVars>>

\* Variant: the call is tried again after any error.
EmbedCall_retry_any_error(method, delay, over, first, second) ==
    EmbedCallWith(first # NoError, method, delay, over, first, second)

\* The retry is made when the first attempt raised and the error text holds
\* "429", "quota" or "rate".
EmbedCall(method, delay, over, first, second) ==
    EmbedCallWith(first # NoError /\ embedding_is_quota_error(first),
                  method, delay, over, first, second)

\* The errors of the first attempt after which a second one is made.
RetriedEmbeddingErrors == {e \in EmbeddingErrors : embedding_is_quota_error(e)}

\* The answers of the provider to one call; there is a second one only
\* when the first is an error that is retried, which the provider raises
\* in at most MaxEmbeddingRetries calls.
EmbeddingAnswers(first, second) ==
    /\ first \in {NoError} \cup EmbeddingErrors
    /\ second \in {NoError} \cup EmbeddingRetryErrors
    /\ first \notin RetriedEmbeddingErrors => second = NoError
    /\ first \in RetriedEmbeddingErrors => Len(requests) - acquires < MaxEmbeddingRetries

EmbeddingCallable ==
    /\ limiter = "embedding"
    /\ pc \in {"idle", "returned", "raised"}
    /\ acquires < MaxEmbeddingCalls

\* QuotaAwareEmbeddings.embed_documents(texts)
EmbedDocuments ==
    /\ EmbeddingCallable
    /\ \E over \in Overshoots, first \in {NoError} \cup EmbeddingErrors,
          second \in {NoError} \cup EmbeddingRetryErrors :
           /\ EmbeddingAnswers(first, second)
           /\ EmbedCall("embed_documents", embed_documents_delay, over, first, second)

\* QuotaAwareEmbeddings.embed_query(text)
EmbedQuery ==
    /\ EmbeddingCallable
    /\ \E over \in Overshoots, first \in {NoError} \cup EmbeddingErrors,
          second \in {NoError} \cup EmbeddingRetryErrors :
           /\ EmbeddingAnswers(first, second)
           /\ EmbedCall("embed_query", embed_query_delay, over, first, second)

InitEmbeddings ==
    /\ strict_setattr = TRUE
    /\ half = 0
    /\ limiter = "embedding"
    /\ requests_per_minute = embedding_requests_per_minute
    /\ request_times = <<>>
    /\ now = 0
    /\ recorded = <<>>
    /\ requests = <<>>
    /\ acquires = 0
    /\ elapses = 0
    /\ fn = "none" /\ error_message = "" /\ attempt_arg = 0 /\ ret = None
    /\ IdleDriver
    /\ IdleProcess

NextEmbeddings == EmbedDocuments \/ EmbedQuery

SpecEmbeddings == InitEmbeddings /\ [][NextEmbeddings]_vars

---------------------------------------------------------------------------
(* The process (src/crew.py run as a script): the imports, with the        *)
(* start-up check of src/config.py and the construction of                 *)
(* serper_tool_instance in src/tools.py; main; the prompts of              *)
(* get_topic_from_user; create_news_crew; execute_with_retry; the end of   *)
(* the script.                                                             *)

\* str.strip(): s without its leading and trailing whitespace.
Strip(s) ==
    LET inked == {i \in 1..Len(s) : ~IsSpace(Char(s, i))}
    IN  IF inked = {} THEN ""
        ELSE SubSeq(s, CHOOSE i \in inked : \A j \in inked : i <= j,
                       CHOOSE i \in inked : \A j \in inked : i >= j)

\* sep.join(parts)
RECURSIVE Join(_, _)
Join(sep, parts) ==
    IF Len(parts) = 0 THEN ""
    ELSE IF Len(parts) = 1 THEN parts[1]
    ELSE parts[1] \o sep \o Join(sep, Tail(parts))

\* `not x` for an Optional[str]: None and the empty string are falsy.
Falsy(opt) == opt = <<>> \/ opt[1] = ""

\* os.getenv(name): None, or the value as the environment holds it.
EnvValues == { <<>>, <<"">>, <<"key">>, <<" key\n">> }

\* What the .env file in the working directory gives for the key: no
\* file or no such line, or a value.
DotenvValues == { <<>>, <<"key-from-file">> }

\* sys.argv[1:]
Argvs == { <<>>, <<"">>, <<"AI">>, <<"climate", "change">> }

\* What the user types at a prompt.
TopicInputs == { "", "  ", " AI developments " }
ConfirmInputs == { "y", " Yes ", "n", "NO", "maybe", "" }

\* What initialize_tasks or Crew(...) may raise.
CreationErrors == { "1 validation error for Crew" }

value_error_text == "GOOGLE_API_KEY environment variable is not set"

completed_banner == "CREW EXECUTION COMPLETED SUCCESSFULLY"
cancelled_banner == "EXECUTION CANCELLED"
failed_banner == "CREW EXECUTION FAILED"

\* RateLimitedSerperTool.__init__: search_enabled, from SERPER_API_KEY and
\* from whether GoogleSerperAPIWrapper() could be built.
serper_search_enabled(serper_api_key, wrapper_built) ==
    IF ~Falsy(serper_api_key) THEN wrapper_built ELSE FALSE

InitCLI ==
    /\ strict_setattr = TRUE
    /\ half = 0
    /\ fn = "none" /\ error_message = "" /\ attempt_arg = 0 /\ ret = None
    /\ IdleLimiter
    /\ driver = "none"
    /\ pc = "import"
    /\ attempt = 0
    /\ wait_time = 0
    /\ exc = NoException
    /\ result = ""
    /\ log = <<>>
    /\ environ \in EnvValues
    /\ dotenv_file \in DotenvValues
    /\ google_api_key = <<>>
    /\ constructed = {}
    /\ search_enabled = FALSE
    /\ topic = <<>>
    /\ crew = "None"
    /\ prompt = "none"
    /\ candidate = ""
    /\ banner = ""
    /\ exit_status = <<>>

\* Variant: the module-level objects are built without the key check.
ImportModules_no_check(serper_api_key, wrapper_built) ==
    /\ pc = "import"
    /\ google_api_key' = IF environ = <<>> THEN <<>> ELSE << Strip(environ[1]) >>
    /\ environ' = IF environ = <<>> THEN <<>> ELSE << Strip(environ[1]) >>
    /\ constructed' = ConfigObjects
    /\ search_enabled' = serper_search_enabled(serper_api_key, wrapper_built)
    /\ pc' = "load_dotenv"
    /\ UNCHANGED <<exc, exit_status, dotenv_file>>
    /\ UNCHANGED <<driver, attempt, wait_time, result, log, topic, crew, prompt, candidate,
                   banner, limVars, pureVars>>

\* The imports at the top of crew.py (lines 1-8).  `from dotenv import
\* load_dotenv` only binds the function.  `from config import llm` runs
\* config.py, which reads os.getenv('GOOGLE_API_KEY'): on None it raises
\* ValueError at line 23, which nothing catches, and the interpreter ends
\* with status 1; else the key is stripped, written back to os.environ,
\* and llm, _embedding_rate_limiter and embedding_function are built.
\* `from agents import ...` then runs tools.py, which builds
\* serper_tool_instance from the SERPER_API_KEY config.py read.
ImportModules(serper_api_key, wrapper_built) ==
    /\ pc = "import"
    /\ IF environ = <<>>
       THEN /\ exc' = [origin |-> "config", text |-> value_error_text]
            /\ exit_status' = <<1>>
            /\ pc' = "exited"
            /\ UNCHANGED <<environ, google_api_key, constructed, search_enabled>>
       ELSE /\ google_api_key' = << Strip(environ[1]) >>
            /\ environ' = << Strip(environ[1]) >>
            /\ constructed' = ConfigObjects
            /\ search_enabled' = serper_search_enabled(serper_api_key, wrapper_built)
            /\ pc' = "load_dotenv"
            /\ UNCHANGED <<exc, exit_status>>
    /\ UNCHANGED <<driver, attempt, wait_time, result, log, topic, crew, prompt, candidate,
                   banner, dotenv_file, limVars, pureVars>>

\* load_dotenv(), line 11 of crew.py, reached when the imports went
\* through: a variable of the .env file is put into os.environ unless
\* os.environ holds it already.
LoadDotenv ==
    /\ pc = "load_dotenv"
    /\ environ' = IF environ = <<>> THEN dotenv_file ELSE environ
    /\ pc' = "main"
    /\ UNCHANGED <<driver, attempt, wait_time, exc, result, log, dotenv_file, google_api_key,
                   constructed, search_enabled, topic, crew, prompt, candidate, banner,
                   exit_status, limVars, pureVars>>

\* __main__ and main up to the first prompt: topic from the command line,
\* EnhancedNewsCrew(topic), execute_with_retry, create_news_crew,
\* get_topic_from_user: `if not self.topic` decides whether to ask.
Main(argv) ==
    LET given == IF Len(argv) > 0 THEN << Join(" ", argv) >> ELSE <<>>
    IN  /\ pc = "main"
        /\ topic' = given
        /\ IF Falsy(given)
           THEN pc' = "prompt" /\ prompt' = "topic"
           ELSE pc' = "create" /\ prompt' = prompt
        /\ UNCHANGED <<driver, attempt, wait_time, exc, result, log, envVars, google_api_key,
                       constructed, search_enabled, crew, candidate, banner, exit_status,
                       limVars, pureVars>>

\* topic = input("Enter the topic for news analysis: ").strip()
InputTopic(text) ==
    /\ pc = "prompt" /\ prompt = "topic"
    /\ candidate' = Strip(text)
    /\ prompt' = IF Strip(text) = "" THEN "topic" ELSE "confirm"
    /\ UNCHANGED <<pc, driver, attempt, wait_time, exc, result, log, envVars, google_api_key,
                   constructed, search_enabled, topic, crew, banner, exit_status,
                   limVars, pureVars>>

\* confirm = input("Is this correct? (y/n): ").strip().lower(); after any
\* answer but y or yes the loop starts over at the topic prompt.
InputConfirm(text) ==
    /\ pc = "prompt" /\ prompt = "confirm"
    /\ IF Lower(Strip(text)) \in {"y", "yes"}
       THEN /\ topic' = << candidate >>
            /\ prompt' = "none"
            /\ pc' = "create"
       ELSE /\ prompt' = "topic"
            /\ UNCHANGED <<topic, pc>>
    /\ UNCHANGED <<driver, attempt, wait_time, exc, result, log, envVars, google_api_key,
                   constructed, search_enabled, crew, candidate, banner, exit_status,
                   limVars, pureVars>>

\* input() raises an Exception (EOFError): printed, continue.
InputRaises ==
    /\ pc = "prompt" /\ prompt \in {"topic", "confirm"}
    /\ prompt' = "topic"
    /\ UNCHANGED <<pc, driver, attempt, wait_time, exc, result, log, envVars, google_api_key,
                   constructed, search_enabled, topic, crew, candidate, banner,
                   exit_status, limVars, pureVars>>

\* input() raises KeyboardInterrupt at either prompt: get_topic_from_user
\* returns None, and create_news_crew returns None.
InputInterrupted ==
    /\ pc = "prompt" /\ prompt \in {"topic", "confirm"}
    /\ prompt' = "interrupted"
    /\ pc' = "idle"
    /\ UNCHANGED <<driver, attempt, wait_time, exc, result, log, envVars, google_api_key,
                   constructed, search_enabled, topic, crew, candidate, banner,
                   exit_status, limVars, pureVars>>

\* create_news_crew with a topic: initialize_tasks(self.topic) and
\* Crew(...) give the crew, which execute_with_retry finds truthy.
CreateNewsCrew ==
    /\ pc = "create"
    /\ crew' = "Crew"
    /\ pc' = "idle"
    /\ UNCHANGED <<driver, attempt, wait_time, exc, result, log, envVars, google_api_key,
                   constructed, search_enabled, topic, prompt, candidate, banner,
                   exit_status, limVars, pureVars>>

\* create_news_crew with a topic, initialize_tasks or Crew(...) raising e:
\* logged and re-raised, through execute_with_retry, to main.
CreateNewsCrewRaises(e) ==
    /\ pc = "create"
    /\ driver' = CrewDriver
    /\ exc' = Reraised(e)
    /\ pc' = "raised"
    /\ UNCHANGED <<attempt, wait_time, result, log, envVars, google_api_key, constructed,
                   search_enabled, topic, crew, prompt, candidate, banner, exit_status,
                   limVars, pureVars>>

\* main, `except Exception as e`: the banner, the tips, return None; the
\* script ends after `result = main(topic)`, so the interpreter exits
\* with status 0.
MainExcept ==
    /\ pc = "raised"
    /\ banner' = failed_banner
    /\ result' = "None"
    /\ exit_status' = <<0>>
    /\ pc' = "exited"
    /\ UNCHANGED <<driver, attempt, wait_time, exc, log, envVars, google_api_key, constructed,
                   search_enabled, topic, crew, prompt, candidate, limVars, pureVars>>

\* main after execute_with_retry returned: `if result` picks the banner;
\* return result; the script ends, status 0.
MainReturns ==
    /\ pc \in {"returned", "cancelled"}
    /\ banner' = IF result \notin {"None", ""} THEN completed_banner ELSE cancelled_banner
    /\ exit_status' = <<0>>
    /\ pc' = "exited"
    /\ UNCHANGED <<driver, attempt, wait_time, exc, result, log, envVars, google_api_key,
                   constructed, search_enabled, topic, crew, prompt, candidate,
                   limVars, pureVars>>

\* Ctrl-C while execute_with_retry sleeps or waits for the crew, that is
\* during time.sleep(10), the progressive delay, crew.kickoff() or a
\* time.sleep(1) of the countdown: KeyboardInterrupt is no Exception, so
\* neither the `except Exception` of execute_with_retry nor that of main
\* catches it.  No banner is printed, main does not return, and the
\* interpreter ends killed by SIGINT, which a shell reports as status 130.
\* The clock has advanced by the whole seconds `s` of the sleep that had
\* passed, and by the progressive delay when the kickoff was reached; the
\* log holds what was done, ending in the interrupt.
KeyboardInterruptRaised ==
    /\ \/ /\ pc = "idle" /\ crew = "Crew"
          /\ \E s \in 0..(initial_delay - 1) :
                 /\ now' = now + s
                 /\ log' = Append(log, Event("interrupt", s, "initial"))
       \/ /\ pc = "call"
          /\ \E s \in 0..(ProgressiveDelay(attempt) - 1) :
                 /\ now' = now + s
                 /\ log' = Append(log, Event("interrupt", s, "progressive"))
       \/ /\ pc = "call"
          /\ now' = now + ProgressiveDelay(attempt)
          /\ log' = log \o ProgressiveEvents(attempt)
                        \o << Event("call", attempt, ""), Event("interrupt", 0, "kickoff") >>
       \/ /\ pc = "countdown"
          /\ \E s \in 0..(CountdownWait(wait_time) - 1) :
                 /\ now' = now + s
                 /\ log' = Append(log, Event("interrupt", s, "countdown"))
    /\ exc' = [origin |-> "interrupt", text |-> "KeyboardInterrupt"]
    /\ exit_status' = <<130>>
    /\ pc' = "exited"
    /\ UNCHANGED <<driver, attempt, wait_time, result, envVars, google_api_key, constructed,
                   search_enabled, topic, crew, prompt, candidate, banner, limiter,
                   requests_per_minute, strict_setattr, half, request_times, recorded,
                   requests, acquires, elapses, pureVars>>

\* The search key and the wrapper's construction, as the imports find them.
SerperKeys == { <<>>, <<"">>, <<"serper-key">> }

NextCLI ==
    \/ \E k \in SerperKeys, built \in BOOLEAN : ImportModules(k, built)
    \/ LoadDotenv
    \/ \E argv \in Argvs : Main(argv)
    \/ \E text \in TopicInputs : InputTopic(text)
    \/ \E text \in ConfirmInputs : InputConfirm(text)
    \/ InputRaises
    \/ InputInterrupted
    \/ CreateNewsCrew
    \/ \E e \in CreationErrors : CreateNewsCrewRaises(e)
    \/ crew = "Crew" /\ CrewStart
    \/ prompt = "interrupted" /\ CrewStartCancelled
    \/ \E v \in Results : CrewKickoffReturns(v)
    \/ \E e \in OperationErrors : CrewKickoffRaises(e)
    \/ CrewCountdownWait
    \/ KeyboardInterruptRaised
    \/ MainExcept
    \/ MainReturns

SpecCLI == InitCLI /\ [][NextCLI]_vars

---------------------------------------------------------------------------
(* The tools in full (src/tools.py): what one invocation of the News DB    *)
(* Tool, of the Get News Tool and of the Search Tool does and returns,     *)
(* given what the news API, the article's site, the vector store and the   *)
(* search API answer.  `driver` names the tool invoked, `log` holds the    *)
(* outside calls it made, `result` the string it returned.                 *)

news_db_content_chars == 300
get_news_content_chars == 400
news_db_articles_processed == 1
news_db_chunks_indexed == 5

MaxToolCalls == 2

ToolNames == [news_db |-> "News DB Tool", get_news |-> "Get News Tool", search |-> "Search Tool"]

\* How a block of code ends: it returns a value or raises an exception
\* whose str() is the value; `events` are the outside calls it made and
\* `slept` the half-seconds of its time.sleep calls, those of the embedding
\* function it reached among them.
Returns(v, evs, t) == [kind |-> "return", value |-> v, events |-> evs, slept |-> t]
Raises(e, evs, t) == [kind |-> "raise", value |-> e, events |-> evs, slept |-> t]

\* s[:n]
Truncate(s, n) == SubSeq(s, 1, Min(Len(s), n))

\* doc.metadata.get('source', 'Unknown')
SourceOf(doc) == IF doc.source = <<>> THEN "Unknown" ELSE doc.source[1]

\* f"Content: {r['content']}\nSource: {r['metadata'].get('source', 'Unknown')}"
\* for each document, its content cut to n characters.
FormattedResults(docs, n) ==
    [i \in 1..Len(docs) |->
        "Content: " \o Truncate(docs[i].page_content, n) \o "\nSource: " \o SourceOf(docs[i])]

\* Variant: only the error statuses count as a failure.
news_db_status_failed_errors_only(status_code) == status_code >= 400

\* response.status_code != 200
news_db_status_failed(status_code) == status_code # 200

\* Variant: no try around the processing of an article.
news_db_process_articles_no_except(a) ==
    LET article == a.articles[1]
    IN  IF article.url = "" THEN Returns(<<>>, <<>>, 0)
        ELSE IF ~article.titled THEN Raises("'title'", <<>>, 0)
        ELSE IF a.load # "" THEN Raises(a.load, << Event("load_error", 0, a.load) >>, 0)
        ELSE IF a.split # ""
        THEN Raises(a.split, << Event("load", 0, article.url),
                                Event("split_error", 0, a.split) >>, 0)
        ELSE Returns(a.chunks, << Event("load", 0, article.url),
                                  Event("split", Len(a.chunks), "") >>, 0)

\* for i, article in enumerate(articles[:1]): the one article processed.
\* Its value is all_splits; processed_count is 1 when the article was
\* loaded and split, 0 when it was skipped (no url) or failed (KeyError
\* on 'title', or an error of the loader or of the splitter: caught,
\* logged, continue).
news_db_process_articles(a) ==
    LET article == a.articles[1]
    IN  IF article.url = "" THEN Returns(<<>>, <<>>, 0)
        ELSE IF ~article.titled THEN Returns(<<>>, <<>>, 0)
        ELSE IF a.load # "" THEN Returns(<<>>, << Event("load_error", 0, a.load) >>, 0)
        ELSE IF a.split # ""
        THEN Returns(<<>>, << Event("load", 0, article.url),
                              Event("split_error", 0, a.split) >>, 0)
        ELSE Returns(a.chunks, << Event("load", 0, article.url),
                                  Event("split", Len(a.chunks), "") >>, 0)

\* processed_count after the loop: splits are extended and the count is
\* raised together, at the end of the try.
news_db_processed_count(p) ==
    IF p.kind = "return" /\ \E i \in DOMAIN p.events : p.events[i].ev = "split"
    THEN news_db_articles_processed ELSE 0

news_db_success_text(processed_count, docs) ==
    "Successfully processed " \o IntToStr(processed_count) \o " article(s). Found "
        \o IntToStr(Len(docs)) \o " relevant chunks:\n\n"
        \o Join("\n---\n", FormattedResults(docs, news_db_content_chars))

\* `if all_splits:` ... else: indexing and the similarity search, inside
\* their own try whose except returns "Error creating vector store: ...".
news_db_index(a, all_splits, processed_count) ==
    IF Len(all_splits) = 0
    THEN Returns("Processed " \o IntToStr(processed_count)
                    \o " article(s) but no content was available for indexing.", <<>>, 0)
    ELSE IF a.index # ""
    THEN Returns("Error creating vector store: " \o a.index,
                 << Event("index_error", 0, a.index) >>,
                 Ticks(news_db_index_delay) + a.index_time)
    ELSE IF a.search # ""
    THEN Returns("Error creating vector store: " \o a.search,
                 << Event("index", Min(Len(all_splits), news_db_chunks_indexed), ""),
                    Event("search_error", 0, a.search) >>,
                 Ticks(news_db_index_delay) + a.index_time
                     + Ticks(news_db_search_delay) + a.search_time)
    ELSE Returns(news_db_success_text(processed_count, a.found),
                 << Event("index", Min(Len(all_splits), news_db_chunks_indexed), ""),
                    Event("search", Len(a.found), "") >>,
                 Ticks(news_db_index_delay) + a.index_time
                     + Ticks(news_db_search_delay) + a.search_time)

\* The body of the outer try of SearchNewsDB.news.
news_db_try(a) ==
    IF a.get # "" THEN Raises(a.get, << Event("http_error", 0, a.get) >>, 0)
    ELSE IF news_db_status_failed(a.status_code)
    THEN Returns("Failed to retrieve news. Status code: " \o IntToStr(a.status_code),
                 << Event("http", a.status_code, "") >>, 0)
    ELSE IF a.json # "" THEN Raises(a.json, << Event("http", a.status_code, "") >>, 0)
    ELSE IF Len(a.articles) = 0
    THEN Returns("No articles found for the given query.",
                 << Event("http", a.status_code, "") >>, 0)
    ELSE LET p == news_db_process_articles(a)
             http == << Event("http", a.status_code, "") >>
         IN  IF p.kind = "raise" THEN Raises(p.value, http \o p.events, p.slept)
             ELSE LET o == news_db_index(a, p.value, news_db_processed_count(p))
                  IN  [o EXCEPT !.events = http \o p.events \o o.events]

\* SearchNewsDB.news after the limiter: the try and its
\* `except Exception as e: return f"Error fetching news: {str(e)}"`.
news_db_tool(a) ==
    LET o == news_db_try(a)
    IN  IF o.kind = "raise" THEN Returns("Error fetching news: " \o o.value, o.events, o.slept)
        ELSE o

get_news_missing_text ==
    "No news database found. Please run the News DB Tool first to populate the database."

get_news_success_text(docs) ==
    "Found " \o IntToStr(Len(docs)) \o " relevant articles:\n\n"
        \o Join("\n---\n", FormattedResults(docs, get_news_content_chars))

\* Variant: the vector store is opened whether its directory exists or not.
get_news_try_open_anyway(a) ==
    LET exists == IF a.exists THEN 1 ELSE 0
    IN  IF a.open # ""
        THEN Raises(a.open, << Event("exists", exists, ""), Event("open_error", 0, a.open) >>,
                    Ticks(get_news_open_delay))
        ELSE IF a.search # ""
        THEN Raises(a.search, << Event("exists", exists, ""), Event("open", 0, ""),
                                 Event("search_error", 0, a.search) >>,
                    Ticks(get_news_open_delay + get_news_search_delay) + a.search_time)
        ELSE Returns(IF Len(a.found) = 0 THEN "No relevant news found for query: " \o a.query
                     ELSE get_news_success_text(a.found),
                     << Event("exists", exists, ""), Event("open", 0, ""),
                        Event("search", Len(a.found), "") >>,
                     Ticks(get_news_open_delay + get_news_search_delay) + a.search_time)

\* The body of the try of GetNews.news.
get_news_try(a) ==
    IF ~a.exists THEN Returns(get_news_missing_text, << Event("exists", 0, "") >>, 0)
    ELSE IF a.open # ""
    THEN Raises(a.open, << Event("exists", 1, ""), Event("open_error", 0, a.open) >>,
                Ticks(get_news_open_delay))
    ELSE IF a.search # ""
    THEN Raises(a.search, << Event("exists", 1, ""), Event("open", 0, ""),
                             Event("search_error", 0, a.search) >>,
                Ticks(get_news_open_delay + get_news_search_delay) + a.search_time)
    ELSE Returns(IF Len(a.found) = 0 THEN "No relevant news found for query: " \o a.query
                 ELSE get_news_success_text(a.found),
                 << Event("exists", 1, ""), Event("open", 0, ""),
                    Event("search", Len(a.found), "") >>,
                 Ticks(get_news_open_delay + get_news_search_delay) + a.search_time)

\* GetNews.news after the limiter: the try and its `except Exception as e:
\* return f"Error retrieving news from database: {str(e)}"`.
get_news_tool(a) ==
    LET o == get_news_try(a)
    IN  IF o.kind = "raise"
        THEN Returns("Error retrieving news from database: " \o o.value, o.events, o.slept)
        ELSE o

serper_not_configured_text ==
    "Serper API key not configured. Please set SERPER_API_KEY environment variable."

\* What the outside answers in these runs.  "" stands for no error;
\* index_time and search_time are the half-seconds Chroma.from_documents
\* and similarity_search spend in the embedding function.
Documents ==
    { <<>>,
      << [page_content |-> "Chip makers report record demand.", source |-> <<"https://n.example/a">>] >>,
      << [page_content |-> "Chip makers report record demand.", source |-> <<"https://n.example/a">>],
         [page_content |-> "Regulators open an inquiry.", source |-> <<>>] >> }

Articles ==
    { <<>>,
      << [url |-> "", titled |-> TRUE] >>,
      << [url |-> "https://n.example/a", titled |-> FALSE] >>,
      << [url |-> "https://n.example/a", titled |-> TRUE],
         [url |-> "https://n.example/b", titled |-> TRUE] >> }

Chunks == { <<>>, << "Chip makers report record demand." >> }

StatusCodes == {200, 204, 401, 429, 500}

NewsDBAnswers ==
    [ get : {"", "HTTPSConnectionPool(host='newsapi.org', port=443): Read timed out."},
      status_code : StatusCodes,
      json : {"", "Expecting value: line 1 column 1 (char 0)"},
      articles : Articles,
      load : {"", "HTTPSConnectionPool(host='n.example', port=443): Max retries exceeded"},
      split : {"", "expected string or bytes-like object"},
      chunks : Chunks,
      index : {"", "429 Resource has been exhausted (e.g. check quota)."},
      index_time : {0},
      search : {"", "Collection news not found"},
      search_time : {0},
      found : Documents ]
    \cup
    \* the news API, the loader and the splitter answering without an error:
    \* the invocations that may reach Chroma
    [ get : {""},
      status_code : {200},
      json : {""},
      articles : Articles,
      load : {""},
      split : {""},
      chunks : Chunks,
      index : {"", "429 Resource has been exhausted (e.g. check quota)."},
      index_time : EmbedDocumentsTimes,
      search : {"", "Collection news not found"},
      search_time : EmbedQueryTimes,
      found : Documents ]

GetNewsAnswers ==
    [ query : {"AI"},
      exists : BOOLEAN,
      open : {"", "could not connect to tenant default_tenant"},
      search : {"", "429 Resource has been exhausted (e.g. check quota)."},
      search_time : EmbedQueryTimes,
      found : Documents ]

SearchResults == {"", "Chip makers report record demand ..."}
SearchErrors == {"403 Client Error: Forbidden", "Got error from SerpAPI: invalid key"}

InitToolCalls ==
    /\ strict_setattr = TRUE
    /\ half = 0
    /\ \/ limiter = "news_db" /\ requests_per_minute = news_db_requests_per_minute
       \/ limiter = "get_news" /\ requests_per_minute = get_news_requests_per_minute
       \/ limiter = "search" /\ requests_per_minute = serper_requests_per_minute
    /\ request_times = <<>>
    /\ now = 0
    /\ recorded = <<>>
    /\ requests = <<>>
    /\ acquires = 0
    /\ elapses = 0
    /\ fn = "none" /\ error_message = "" /\ attempt_arg = 0 /\ ret = None
    /\ IdleDriver
    /\ environ = <<"key">>
    /\ dotenv_file = <<>>
    /\ google_api_key = <<"key">>
    /\ constructed = ConfigObjects
    /\ \E k \in SerperKeys, built \in BOOLEAN :
           search_enabled = serper_search_enabled(k, built)
    /\ topic = <<>>
    /\ crew = "None"
    /\ prompt = "none"
    /\ candidate = ""
    /\ banner = ""
    /\ exit_status = <<>>

\* A tool function called with the outside answering as `o` says:
\* instance = cls(); instance._wait_for_rate_limit() on the new instance's
\* empty history (time.sleep(2)), then the body.
FreshInstanceCall(name, o) ==
    LET recorded_at == Ticks(now) + half + Ticks(tool_call_delay)
        returned_at == recorded_at + o.slept
    IN  /\ pc = "idle"
        /\ acquires < MaxToolCalls
        /\ driver' = name
        /\ requests' = Append(requests, recorded_at)
        /\ now' = returned_at \div ticks_per_second
        /\ half' = returned_at % ticks_per_second
        /\ acquires' = acquires + 1
        /\ log' = << Event("acquire", 0, "") >> \o o.events
        /\ IF o.kind = "return"
           THEN pc' = "returned" /\ result' = o.value /\ exc' = exc
           ELSE pc' = "raised" /\ exc' = Reraised(o.value) /\ result' = result
        /\ UNCHANGED <<limiter, requests_per_minute, strict_setattr, request_times, recorded,
                       elapses, attempt, wait_time, pureVars, procVars>>

\* SearchNewsDB.news(query), in full.
SearchNewsDBNewsCall ==
    /\ limiter = "news_db"
    /\ \E a \in NewsDBAnswers : FreshInstanceCall(ToolNames.news_db, news_db_tool(a))

\* GetNews.news(query), in full.
GetNewsNewsCall ==
    /\ limiter = "get_news"
    /\ \E a \in GetNewsAnswers : FreshInstanceCall(ToolNames.get_news, get_news_tool(a))

\* Variant: the limiter is passed before search_enabled is looked at.
SerperSearchEnter_acquire_first ==
    /\ limiter = "search" /\ pc = "idle"
    /\ acquires < MaxToolCalls
    /\ driver' = ToolNames.search
    /\ \E over \in Overshoots : tool_wait_for_rate_limit(over)
    /\ requests' = Append(requests, Ticks(now'))
    /\ IF ~search_enabled
       THEN /\ result' = serper_not_configured_text
            /\ pc' = "returned"
            /\ log' = <<>>
       ELSE /\ log' = << Event("acquire", 0, "") >>
            /\ pc' = "call"
            /\ result' = result
    /\ UNCHANGED <<attempt, wait_time, exc, pureVars, procVars>>

\* search_tool(query) -> serper_tool_instance.search(query), up to the
\* call of the search API: the early return when the search is not
\* enabled, else self._wait_for_rate_limit().
SerperSearchEnter ==
    /\ limiter = "search" /\ pc = "idle"
    /\ driver' = ToolNames.search
    /\ IF ~search_enabled
       THEN /\ result' = serper_not_configured_text
            /\ pc' = "returned"
            /\ log' = <<>>
            /\ UNCHANGED limVars
       ELSE /\ acquires < MaxToolCalls
            /\ \E over \in Overshoots : tool_wait_for_rate_limit(over)
            /\ requests' = Append(requests, Ticks(now'))
            /\ log' = << Event("acquire", 0, "") >>
            /\ pc' = "call"
            /\ result' = result
    /\ UNCHANGED <<attempt, wait_time, exc, pureVars, procVars>>

\* time.sleep(2); result = self.serper_wrapper.run(query); return result
SerperRunReturns(v) ==
    /\ driver = ToolNames.search /\ pc = "call"
    /\ now' = now + serper_call_delay
    /\ log' = Append(log, Event("run", 0, ""))
    /\ result' = v
    /\ pc' = "returned"
    /\ UNCHANGED <<driver, attempt, wait_time, exc, limiter, requests_per_minute,
                   strict_setattr, half, request_times, recorded, requests, acquires, elapses,
                   pureVars, procVars>>

\* time.sleep(2); self.serper_wrapper.run(query) raises e:
\* return f"Search error: {str(e)}"
SerperRunRaises(e) ==
    /\ driver = ToolNames.search /\ pc = "call"
    /\ now' = now + serper_call_delay
    /\ log' = Append(log, Event("run_error", 0, e))
    /\ result' = "Search error: " \o e
    /\ pc' = "returned"
    /\ UNCHANGED <<driver, attempt, wait_time, exc, limiter, requests_per_minute,
                   strict_setattr, half, request_times, recorded, requests, acquires, elapses,
                   pureVars, procVars>>

\* The agent calls the tool again.
ToolNextCall ==
    /\ driver \in {ToolNames.news_db, ToolNames.get_news, ToolNames.search}
    /\ pc \in {"returned", "raised"}
    /\ driver' = "none"
    /\ pc' = "idle"
    /\ result' = ""
    /\ exc' = NoException
    /\ log' = <<>>
    /\ UNCHANGED <<attempt, wait_time, limVars, pureVars, procVars>>

NextToolCalls ==
    \/ SearchNewsDBNewsCall
    \/ GetNewsNewsCall
    \/ SerperSearchEnter
    \/ \E v \in SearchResults : SerperRunReturns(v)
    \/ \E e \in SearchErrors : SerperRunRaises(e)
    \/ ToolNextCall

SpecToolCalls == InitToolCalls /\ [][NextToolCalls]_vars

---------------------------------------------------------------------------
(* Claims about one limiter instance (checked under SpecLimiter).          *)

\* The timestamps recorded in the trailing window that ends at the i-th
\* recorded timestamp t: those in (t - 60, t], the interval the limiter's
\* own pruning uses.  A window ending at any other instant holds no more
\* timestamps than the one ending at the last timestamp inside it.
InWindowEndingAt(i) ==
    {j \in DOMAIN recorded :
        recorded[j] > recorded[i] - window_seconds /\ recorded[j] <= recorded[i]}

\* C1: for every sequence of acquire() calls on one limiter instance with
\* ceiling C, no trailing 60-second window holds more than C of the
\* timestamps the limiter recorded.
C1_WindowNeverExceedsCeiling ==
    \A i \in DOMAIN recorded : Cardinality(InWindowEndingAt(i)) <= requests_per_minute

\* The limiter was called past its ceiling, slept, and the window that ends
\* at the newest timestamp is full.
C1_Witness ==
    /\ limiter = "embedding"
    /\ acquires > requests_per_minute
    /\ Len(request_times) > requests_per_minute
    /\ Cardinality(InWindowEndingAt(Len(recorded))) = requests_per_minute

\* The buffer added to a rate-limit sleep, and the sleep that follows it
\* in every acquire(), by the class of the limiter.
BufferOf ==
    IF limiter = "embedding" THEN embedding_rate_buffer
    ELSE IF limiter = "llm" THEN llm_rate_buffer ELSE tool_rate_buffer

DelayOf == IF limiter = "tool" THEN tool_call_delay ELSE 0

\* One acquire() seen from outside: request_times before and after it, the
\* clock when it was entered (its current_time) and when it recorded.
AcquireStep ==
    LET retained == SubSeq(request_times', 1, Len(request_times') - 1)
        slept == now' - now - DelayOf
    IN  /\ Len(request_times') >= 1
        /\ request_times'[Len(request_times')] = now'
        /\ \A i \in DOMAIN retained : retained[i] > now - window_seconds
        /\ \A i \in DOMAIN request_times :
               request_times[i] > now - window_seconds =>
                   \E j \in DOMAIN retained : retained[j] = request_times[i]
        /\ IF Len(retained) >= requests_per_minute
           THEN LET wait == Oldest(retained) + window_seconds - now
                IN  /\ wait > 0
                    /\ slept \in {wait + BufferOf + over : over \in Overshoots}
           ELSE slept = 0

\* An acquire() of the LLM client that raised at its pruning statement.
AcquireRefused ==
    /\ limiter = "llm" /\ strict_setattr
    /\ now' = now
    /\ recorded' = recorded

\* C31: in every acquire() of every limiter, the timestamps kept after
\* pruning are all strictly newer than now - 60 s; when their number is at
\* or above the ceiling, the wait (oldest kept + 60 s - now) is strictly
\* positive and the limiter sleeps the wait plus its buffer (3 s LLM, 2 s
\* embeddings, 3 s tools) before it records; under the ceiling it records
\* without a rate-limit sleep.
\* (An acquire() of the LLM client that the base class refuses ends at the
\* pruning statement: it sleeps nothing and records nothing.)
C31_AtCeilingAlwaysWaits ==
    [][acquires' = acquires + 1 => (AcquireStep \/ AcquireRefused)]_vars

\* A tool limiter with ceiling 1, called twice in a row: the second call
\* found the first timestamp, waited the full 60 s and the buffer of 3 s,
\* then the 2 s of every tool call.
C31_Witness ==
    /\ limiter = "tool"
    /\ requests_per_minute = 1
    /\ Len(recorded) >= 2
    /\ recorded[2] - recorded[1] = window_seconds + tool_rate_buffer + tool_call_delay

---------------------------------------------------------------------------
(* Claims about the pure functions (checked under SpecPure).               *)

\* C5: QuotaAwareLLM._is_quota_error returns true for every text that holds
\* one of the seven indicator phrases, in any letter case, and false for
\* every text that holds none of them.
C5_LLMClassifierSevenIndicators ==
    fn = "llm._is_quota_error" =>
        /\ error_message \in WithIndicator => ret = TRUE
        /\ error_message \in IndicatorFree => ret = FALSE

C5_Witness ==
    /\ fn = "llm._is_quota_error"
    /\ error_message = "API error: TOO MANY REQUESTS"
    /\ ret = TRUE

\* C6: EnhancedNewsCrew._is_quota_error returns true for every text that
\* holds one of the seven indicator phrases, 'too many requests' included.
C6_CrewClassifierSevenIndicators ==
    fn = "crew._is_quota_error" /\ error_message \in WithIndicator => ret = TRUE

\* C7: at both call sites, whenever a delay N is extracted from the error
\* text (N = 0 included) the computed wait is N + 10 seconds.
C7_ApiDelayPlusTen ==
    /\ fn = "llm._handle_quota_error" /\ llm_extract_retry_delay(error_message) # None
           => ret = llm_extract_retry_delay(error_message)[1] + 10
    /\ fn = "crew._calculate_wait_time" /\ crew_extract_retry_delay(error_message) # None
           => ret = crew_extract_retry_delay(error_message)[1] + 10

\* 30, 60, 120, 240 for attempt 0..3, then 300.
ExpectedExponentialWait(a) ==
    CASE a = 0 -> 30
      [] a = 1 -> 60
      [] a = 2 -> 120
      [] a = 3 -> 240
      [] OTHER -> 300

\* C8: when no delay is found in the text, the crew-level
\* _calculate_wait_time(attempt, text) returns 30, 60, 120, 240 for
\* attempt 0..3 and 300 for attempt 4 and every larger attempt.
C8_CrewExponentialBackoff ==
    fn = "crew._calculate_wait_time" /\ crew_extract_retry_delay(error_message) = None
        => ret = ExpectedExponentialWait(attempt_arg)

C8_Witness ==
    /\ fn = "crew._calculate_wait_time"
    /\ error_message = "429 Resource has been exhausted"
    /\ attempt_arg = 4
    /\ ret = 300

\* C10: QuotaAwareLLM._extract_retry_delay returns 42 for a text that holds
\* 'retry_delay { seconds: 42 }' (the explicit form wins over the looser
\* phrasings around it), 17 for a text that holds 'please wait 17 seconds',
\* and None for a text with no numeric hint.
C10_LLMExtractorOrder ==
    fn = "llm._extract_retry_delay" =>
        /\ error_message \in WithExplicit42 => ret = Some(42)
        /\ error_message \in WithWait17 => ret = Some(17)
        /\ error_message \in NoNumericHint => ret = None

C10_Witness ==
    /\ fn = "llm._extract_retry_delay"
    /\ error_message = "Waited seconds: 7 so far. retry_delay { seconds: 42 }; next window in 9 seconds"
    /\ ret = Some(42)

\* C11: EnhancedNewsCrew._extract_retry_delay returns 17 for a text that
\* holds 'please wait 17 seconds', and the crew-level wait computed from
\* such a text is 27 seconds, not the exponential one.
C11_CrewExtractorLoosePhrasings ==
    /\ fn = "crew._extract_retry_delay" /\ error_message \in WithWait17
           => ret = Some(17)
    /\ fn = "crew._calculate_wait_time" /\ error_message \in WithWait17
           => ret = 17 + retry_buffer

---------------------------------------------------------------------------
(* Claims about a run of a retry driver (checked under Spec).              *)

Indices(e) == {i \in DOMAIN log : log[i].ev = e}
Calls == Cardinality(Indices("call"))
Waits == Cardinality(Indices("countdown"))
Errors == Indices("error")

\* The running driver's own classifier and attempt budget.
ClassifiedQuota(text) ==
    IF driver = CrewDriver THEN crew_is_quota_error(text) ELSE llm_is_quota_error(text)

MaxAttempts == IF driver = CrewDriver THEN max_retries ELSE max_quota_retries

AllErrorsQuota == \A j \in Errors : ClassifiedQuota(log[j].text)

\* The text of the error the operation raised last.
LastError == log[CHOOSE i \in Errors : \A j \in Errors : j <= i].text

\* Every exception the driver's except block received: the errors of the
\* operation and the errors of the acquire() before it.
Caught == Errors \cup Indices("refused")

\* The text of the one it received last.
LastCaught == log[CHOOSE i \in Caught : \A j \in Caught : j <= i].text

\* C2: for both drivers, if the operation raises a quota error (an error the
\* driver's classifier takes for one) on its first k attempts and then
\* returns, the driver returns exactly that result, the operation was
\* invoked k+1 times, k backoff waits were performed, and nothing follows
\* the success.
C2_QuotaErrorsThenSuccess ==
    \A i \in Indices("return") :
        AllErrorsQuota =>
            LET k == Cardinality(Errors)
            IN  /\ pc = "returned"
                /\ result = log[i].text
                /\ i = Len(log)
                /\ log[i].n = k
                /\ k < MaxAttempts
                /\ Calls = k + 1
                /\ Waits = k

\* Two quota errors, then success at the third invocation.
C2_Witness ==
    /\ driver = CrewDriver
    /\ pc = "returned"
    /\ result = "report B"
    /\ Cardinality(Errors) = 2
    /\ Calls = 3

\* C3: for both drivers, if the operation raises a quota error on every
\* attempt, it is invoked exactly max_attempts (5) times, max_attempts - 1
\* backoff waits are performed (none after the last attempt), and the
\* driver raises the aggregate error, whose text names the 5 attempts.
C3_QuotaBudgetExhausted ==
    /\ Cardinality(Errors) <= MaxAttempts
    /\ Calls <= MaxAttempts
    /\ (Cardinality(Errors) = MaxAttempts /\ AllErrorsQuota) =>
           /\ pc = "raised"
           /\ exc.origin = "driver"
           /\ Contains(exc.text, "quota exceeded after 5 attempts")
           /\ Calls = MaxAttempts
           /\ Waits = MaxAttempts - 1
           /\ log[Len(log)].ev = "error"

C3_Witness ==
    /\ driver = "invoke"
    /\ pc = "raised"
    /\ Cardinality(Errors) = 5
    /\ exc = Constructed(llm_exhausted_text)

\* C4: for both drivers, if the operation raises an error its classifier
\* does not take for a quota error, at any attempt, that very error
\* propagates, no backoff wait follows and the operation is not invoked
\* again.
C4_NonQuotaPropagates ==
    \A i \in Errors :
        ~ClassifiedQuota(log[i].text) =>
            /\ i = Len(log)
            /\ pc = "raised"
            /\ exc = Reraised(log[i].text)
            /\ Calls = log[i].n + 1
            /\ Waits = log[i].n

\* A non-quota error at the third attempt of the crew-level driver.
C4_Witness ==
    /\ driver = CrewDriver
    /\ pc = "raised"
    /\ attempt = 2
    /\ exc = Reraised("Invalid argument: field x required")

\* C9: in the LLM-level driver, when no delay is extracted from the error
\* text, the backoff wait is 70 seconds at every attempt 0..3; in the
\* crew-level driver it is the exponential wait, which is never 70.
C9_FlatVersusExponential ==
    pc = "countdown" =>
        /\ attempt \in 0..(MaxAttempts - 2)
        /\ driver \in LLMDrivers /\ llm_extract_retry_delay(LastCaught) = None
               => wait_time = 70
        /\ driver = CrewDriver /\ crew_extract_retry_delay(LastCaught) = None
               => wait_time = ExpectedExponentialWait(attempt) /\ wait_time # 70

\* The fourth attempt of the LLM-level driver failed, no delay in the text.
C9_Witness ==
    /\ driver = "_generate"
    /\ pc = "countdown"
    /\ attempt = 3
    /\ llm_extract_retry_delay(LastCaught) = None
    /\ wait_time = 70

\* The index of the quota error that a clear follows: the error, the
\* computed wait, then the clear.
IsPosition(i, e) == i \in DOMAIN log /\ log[i].ev = e

\* C12: in the LLM-level driver, after a quota error (of the provider call,
\* or an error of the acquire() taken for one) at attempt
\* a < max_attempts - 1 the wait is computed, then the limiter's history is
\* cleared, then the countdown of that wait runs, then attempt a + 1 starts
\* with its acquire(); the history is empty when that acquire() runs, which
\* therefore sleeps 0 seconds and leaves one timestamp, the current time.
C12_ClearThenWaitThenAcquire ==
    driver \in LLMDrivers =>
        /\ \A i \in Caught :
               llm_is_quota_error(log[i].text) /\ log[i].n < max_quota_retries - 1 =>
                   /\ IsPosition(i + 1, "backoff")
                   /\ IsPosition(i + 2, "clear")
                   /\ i + 3 <= Len(log) =>
                          IsPosition(i + 3, "countdown") /\ log[i + 3].n = log[i + 1].n
                   /\ i + 4 <= Len(log) =>
                          IsPosition(i + 4, "acquire") /\ log[i + 4].n = log[i].n + 1
        /\ pc = "countdown" => request_times = <<>>
        /\ pc = "acquire" /\ attempt > 0 =>
               /\ request_times = <<>>
               /\ RateLimitSleep(Pruned(request_times, now), requests_per_minute,
                                 now, llm_rate_buffer) = 0
        /\ pc = "call" /\ attempt > 0 => request_times = <<now>>

\* The second attempt of invoke is about to call the provider: its acquire()
\* ran on the cleared history, right after the countdown.
C12_Witness ==
    /\ driver = "invoke"
    /\ pc = "call"
    /\ attempt = 1
    /\ Len(recorded) = 2
    /\ request_times = <<now>>
    /\ log[Len(log)].ev = "acquire"
    /\ log[Len(log) - 1].ev = "countdown"

Acquires == Cardinality(Indices("acquire"))

\* C13: in invoke and _generate every attempt, the first and each retry,
\* starts with one acquire(), which records one timestamp, and the provider
\* call of the attempt, failed or not, comes right after it: there are as
\* many acquire()s and timestamps as attempts, and each request goes out
\* at its timestamp.
C13_OneAcquirePerAttempt ==
    driver \in LLMDrivers =>
        /\ \A i \in Indices("call") :
               /\ IsPosition(i - 1, "acquire")
               /\ log[i - 1].n = log[i].n
               /\ Cardinality({j \in Indices("acquire") : log[j].n = log[i].n}) = 1
        /\ Acquires = Calls + (IF pc = "call" THEN 1 ELSE 0)
        /\ Len(recorded) = Acquires
        /\ Len(requests) = Calls
        /\ \A k \in DOMAIN requests : requests[k] = Ticks(recorded[k])

\* C20: the aggregate error of an exhausted driver is fatal for a driver
\* that encloses it: that driver does not take it for a quota error, and
\* after it there is no wait and no further invocation.
C20_AggregateErrorIsFatal ==
    \A i \in Errors :
        log[i].text = llm_exhausted_text =>
            /\ ~ClassifiedQuota(log[i].text)
            /\ i = Len(log)
            /\ pc = "raised"
            /\ exc = Reraised(llm_exhausted_text)

---------------------------------------------------------------------------
(* Claims about the requests that reach a provider or a tool, over several *)
(* calls (checked under SpecLLMClient, SpecTools, SpecEmbeddings).         *)

\* The requests in the trailing 60-second window that ends at the i-th
\* request (instants in half-seconds).
RequestsInWindowEndingAt(i) ==
    {j \in DOMAIN requests :
        /\ requests[j] > requests[i] - Ticks(window_seconds)
        /\ requests[j] <= requests[i]}

MostRequestsInAWindow ==
    IF requests = <<>> THEN 0
    ELSE LET counts == {Cardinality(RequestsInWindowEndingAt(i)) : i \in DOMAIN requests}
         IN  CHOOSE c \in counts : \A d \in counts : d <= c

\* C14: over any sequence of calls on the LLM client, the retries after
\* quota errors counted, at most 6 provider requests are issued within
\* any trailing 60-second window.  (With the base class as shipped,
\* strict_setattr = TRUE, every acquire() of the client is refused and no
\* request is issued: the bound has nothing to count.  Only a run that
\* starts with strict_setattr = FALSE reaches a seventh request, after the
\* history was cleared and a countdown shorter than the window.)
C14_LLMRequestsPerWindow ==
    limiter = "llm" => MostRequestsInAWindow <= llm_requests_per_minute

\* C15: over any sequence of invocations of the News DB Tool (ceiling 2)
\* or of the Get News Tool (ceiling 6), the invocations that pass
\* _wait_for_rate_limit within any trailing 60-second window never exceed
\* the tool's ceiling.
C15_NewsToolsPerWindow ==
    limiter \in {"news_db", "get_news"} => MostRequestsInAWindow <= requests_per_minute

\* C16: over any sequence of Search Tool invocations, at most 5 pass the
\* limiter of serper_tool_instance within any trailing 60-second window.
C16_SearchToolPerWindow ==
    limiter = "search" => MostRequestsInAWindow <= serper_requests_per_minute

\* A sixth and a seventh search were held back: the window that ends at
\* the newest admission is full.
C16_Witness ==
    /\ limiter = "search"
    /\ Len(requests) = serper_requests_per_minute + 2
    /\ Cardinality(RequestsInWindowEndingAt(Len(requests))) = serper_requests_per_minute
    /\ requests[6] - requests[1] >= Ticks(window_seconds)

\* C17: over any interleaving of embed_documents and embed_query calls, at
\* most 8 requests reach the embedding provider within any trailing
\* 60-second window, the inline retries counted.
C17_EmbeddingRequestsPerWindow ==
    limiter = "embedding" => MostRequestsInAWindow <= embedding_requests_per_minute

\* C18: a call of embed_documents or embed_query sends at most two
\* requests.  When the first attempt raises an error detected as
\* quota-related, one sleep of 60 s and exactly one more request follow,
\* and an error of that request propagates; when the first error is not
\* detected, it propagates after the one request, without the sleep.
C18_EmbeddingRetriesOnce ==
    driver \in EmbeddingMethods =>
        /\ Cardinality(Indices("request")) \in {1, 2}
        /\ Cardinality(Indices("request")) = 2 => Cardinality(Errors) >= 1
        /\ \A i \in Errors :
               IF log[i].n = 0
               THEN IF embedding_is_quota_error(log[i].text)
                    THEN /\ Indices("sleep") = {i + 1}
                         /\ log[i + 1].n = 60
                         /\ Indices("request") = {i - 1, i + 2}
                         /\ log[i + 2].n - log[i - 1].n >= Ticks(60)
                         /\ Len(log) = i + 3
                         /\ log[i + 3].ev = "return" => pc = "returned"
                    ELSE /\ Indices("request") = {i - 1}
                         /\ Indices("sleep") = {}
                         /\ i = Len(log)
                         /\ pc = "raised"
                         /\ exc = Reraised(log[i].text)
               ELSE /\ i = Len(log)
                    /\ pc = "raised"
                    /\ exc = Reraised(log[i].text)
                    /\ Cardinality(Indices("request")) = 2

\* embed_query: the first attempt raised an error taken for a quota error,
\* the retry after 60 s raised a quota error, and that error left the call.
C18_Witness ==
    /\ driver = "embed_query"
    /\ pc = "raised"
    /\ Cardinality(Indices("request")) = 2
    /\ Cardinality(Errors) = 2
    /\ log[3].text = "Error: could not generate embedding"
    /\ exc = Reraised("429 Resource has been exhausted (e.g. check quota).")

\* The seconds of the sleeps and countdowns among the first i events.
RECURSIVE SecondsSlept(_)
SecondsSlept(i) ==
    IF i = 0 THEN 0
    ELSE SecondsSlept(i - 1) + (IF log[i].ev \in {"sleep", "countdown"} THEN log[i].n ELSE 0)

\* C19: in execute_with_retry the 10-second delay is slept once, before
\* attempt 0 and before no retry; every retry attempt a >= 1 is kicked off
\* after the countdown of the wait computed for attempt a - 1 and, after
\* that, a sleep of 15 + 10*a seconds; the run has slept all of them.
C19_InitialAndProgressiveDelays ==
    driver = CrewDriver /\ pc # "cancelled" =>
        /\ {i \in Indices("sleep") : log[i].text = "initial"} = {1}
        /\ log[1].n = 10
        /\ \A i \in Indices("call") :
               IF log[i].n = 0
               THEN i = 2
               ELSE /\ IsPosition(i - 1, "sleep")
                    /\ log[i - 1].text = "progressive"
                    /\ log[i - 1].n = 15 + (10 * log[i].n)
                    /\ IsPosition(i - 2, "countdown")
                    /\ IsPosition(i - 3, "error")
                    /\ log[i - 3].n = log[i].n - 1
                    /\ log[i - 2].n = crew_calculate_wait_time(log[i - 3].n, log[i - 3].text)
        /\ Cardinality({i \in Indices("sleep") : log[i].text = "progressive"})
               = Cardinality({i \in Indices("call") : log[i].n >= 1})
        /\ now = SecondsSlept(Len(log))

\* The third kickoff returned: 10 s, then 30 s + 25 s, then 52 s + 35 s.
C19_Witness ==
    /\ driver = CrewDriver
    /\ pc = "returned"
    /\ Calls = 3
    /\ log[3].text = "429 Resource has been exhausted (e.g. check quota)."
    /\ log[7].text = "429 You exceeded your current quota. retry_delay { seconds: 42 }"
    /\ now = 10 + 30 + 25 + 52 + 35


---------------------------------------------------------------------------
(* Claims about the process (checked under SpecCLI).                       *)

\* execute_with_retry ended with an exception after a kickoff failed: the
\* error of the crew re-raised, or the aggregate error of the driver.
EndedInFatalError ==
    /\ exc.origin \in {"operation", "driver"}
    /\ \E i \in DOMAIN log : log[i].ev = "error"

\* C21: the process started as a script exits with status 0 when the crew
\* run succeeded, and with a non-zero status when execute_with_retry ended
\* in a fatal error (the quota budget exhausted, or an error that is not a
\* quota error).
C21_ExitStatusTellsOutcome ==
    pc = "exited" =>
        /\ (banner = completed_banner => exit_status = <<0>>)
        /\ (EndedInFatalError => exit_status # <<0>>)


\* C22: once the user interrupted a prompt of get_topic_from_user (the
\* topic prompt or the confirmation prompt), no topic is set and no crew
\* exists; execute_with_retry returns None without the 10-second sleep,
\* without a kickoff and without raising; main prints the cancellation
\* banner.
C22_InterruptAbortsCleanly ==
    prompt = "interrupted" =>
        /\ Falsy(topic)
        /\ crew = "None"
        /\ log = <<>>
        /\ now = 0
        /\ exc = NoException
        /\ pc \in {"idle", "cancelled", "exited"}
        /\ pc \in {"cancelled", "exited"} => result = "None"
        /\ pc = "exited" => banner = cancelled_banner

\* The user typed a topic, was asked to confirm at least once, and then
\* pressed Ctrl-C; the process has ended.
C22_Witness ==
    /\ prompt = "interrupted"
    /\ candidate = "AI developments"
    /\ pc = "exited"
    /\ banner = cancelled_banner


\* C27: when GOOGLE_API_KEY is not in the environment as config.py is
\* imported, start-up ends with the ValueError of config.py, uncaught,
\* before llm, _embedding_rate_limiter and embedding_function are built
\* (and before any later import or main runs).
C27_MissingKeyIsFatalAtStartup ==
    (environ = <<>> /\ pc # "import") =>
        /\ pc = "exited"
        /\ exc = [origin |-> "config", text |-> value_error_text]
        /\ exit_status # <<>> /\ exit_status # <<0>>
        /\ google_api_key = <<>>
        /\ constructed = {}
        /\ ~search_enabled
        /\ crew = "None"
        /\ banner = ""
        /\ log = <<>>

\* The process ended on the ValueError.
C27_Witness ==
    /\ environ = <<>>
    /\ pc = "exited"
    /\ exc.text = value_error_text
    /\ constructed = {}

\* C33: a GOOGLE_API_KEY that only the .env file holds is in os.environ
\* by the time config.py reads it, so the start-up never ends on the
\* ValueError of config.py when the .env file holds the key.
C33_DotenvKeyReachesConfig ==
    (dotenv_file # <<>> /\ pc # "import") =>
        /\ exc # [origin |-> "config", text |-> value_error_text]
        /\ google_api_key # <<>>

---------------------------------------------------------------------------
(* Claims about one invocation of a tool (checked under SpecToolCalls).    *)

\* The positions of the events named e in this invocation's log.
ToolEvents(e) == {i \in DOMAIN log : log[i].ev = e}

\* C23: when the news API answers with a status other than 200, the News
\* DB Tool returns "Failed to retrieve news. Status code: <status>", having
\* made one HTTP request and no call to the loader, the splitter, the
\* vector store or the similarity search.
C23_NonOKStatusFailsAtOnce ==
    (driver = ToolNames.news_db /\ pc # "idle"
        /\ \E i \in ToolEvents("http") : log[i].n # 200) =>
        /\ pc = "returned"
        /\ exc = NoException
        /\ Len(log) = 2
        /\ log[1].ev = "acquire"
        /\ log[2].ev = "http"
        /\ result = "Failed to retrieve news. Status code: " \o IntToStr(log[2].n)

\* The news API answered 429.
C23_Witness ==
    /\ driver = ToolNames.news_db
    /\ pc = "returned"
    /\ ToolEvents("http") = {2}
    /\ log[2].n = 429
    /\ result = "Failed to retrieve news. Status code: 429"

\* C24: an invocation of the News DB Tool or of the Get News Tool ends by
\* returning a string, never by raising: a failed HTTP request, a failed
\* load or split of the article, a failed indexing and a failed similarity
\* search each give the tool's own message; after a failed load or split
\* the article is skipped and the count reported is 0.
C24_NewsToolsNeverRaise ==
    (driver \in {ToolNames.news_db, ToolNames.get_news} /\ pc # "idle") =>
        /\ pc = "returned"
        /\ exc = NoException
        /\ result \in STRING
        /\ result # ""
        /\ \A i \in ToolEvents("http_error") :
               result = "Error fetching news: " \o log[i].text
        /\ \A i \in ToolEvents("load_error") \cup ToolEvents("split_error") :
               result = "Processed 0 article(s) but no content was available for indexing."
        /\ \A i \in ToolEvents("index_error") :
               result = "Error creating vector store: " \o log[i].text
        /\ \A i \in ToolEvents("open_error") :
               result = "Error retrieving news from database: " \o log[i].text
        /\ \A i \in ToolEvents("search_error") :
               result = (IF driver = ToolNames.news_db THEN "Error creating vector store: "
                         ELSE "Error retrieving news from database: ") \o log[i].text

\* The article's site did not answer: the article was skipped.
C24_Witness ==
    /\ driver = ToolNames.news_db
    /\ pc = "returned"
    /\ ToolEvents("load_error") # {}
    /\ ToolEvents("index") = {}
    /\ result = "Processed 0 article(s) but no content was available for indexing."

\* C25: when the directory of the vector store does not exist, the Get
\* News Tool returns the message that asks for a run of the News DB Tool,
\* without raising, without opening the vector store and without a
\* similarity search (the one call that embeds the query).
C25_MissingDatabaseIsReported ==
    (driver = ToolNames.get_news /\ pc # "idle"
        /\ \E i \in ToolEvents("exists") : log[i].n = 0) =>
        /\ pc = "returned"
        /\ exc = NoException
        /\ result = get_news_missing_text
        /\ Contains(result, "run the News DB Tool first")
        /\ Len(log) = 2
        /\ ToolEvents("open") \cup ToolEvents("open_error") = {}
        /\ ToolEvents("search") \cup ToolEvents("search_error") = {}

\* The second invocation found no directory either.
C25_Witness ==
    /\ driver = ToolNames.get_news
    /\ pc = "returned"
    /\ acquires = 2
    /\ \E i \in ToolEvents("exists") : log[i].n = 0
    /\ result = get_news_missing_text

\* C26: search() ends by returning a string, never by raising.  With the
\* search not enabled (no key, or the wrapper could not be built) it
\* returns the not-configured text, the limiter untouched and the search
\* API not called; when the search API fails it returns "Search error: "
\* and the error's text, which holds the marker "error:".
C26_SearchNeverRaises ==
    (driver = ToolNames.search /\ pc # "idle") =>
        /\ pc \in {"call", "returned"}
        /\ exc = NoException
        /\ pc = "returned" => result \in STRING
        /\ ~search_enabled =>
               /\ pc = "returned"
               /\ result = serper_not_configured_text
               /\ log = <<>>
               /\ acquires = 0 /\ request_times = <<>> /\ recorded = <<>>
               /\ requests = <<>> /\ now = 0
        /\ \A i \in ToolEvents("run_error") :
               /\ result = "Search error: " \o log[i].text
               /\ Contains(result, "error:")

\* A search on an instance that is not enabled has returned.
C26_Witness ==
    /\ driver = ToolNames.search
    /\ ~search_enabled
    /\ pc = "returned"
    /\ result = serper_not_configured_text


\* C30: in the crew-level driver the progressive delays slept before the
\* retries are 15 s, 25 s, 35 s, ...: 15 s before the first retry (attempt
\* index 1) and 10 s more before each later one.
C30_ProgressiveDelaySequence ==
    driver = CrewDriver =>
        \A i \in Indices("sleep") :
            log[i].text = "progressive" =>
                /\ IsPosition(i + 1, "call")
                /\ log[i].n = progressive_base + ((log[i + 1].n - 1) * progressive_step)

\* The step in which an attempt raised (in the provider call, or in the
\* acquire() before it) and the LLM-level driver gave up: a non-quota
\* error, or a quota error on the last attempt.
LLMGivesUp == driver \in LLMDrivers /\ pc \in {"acquire", "call"} /\ pc' = "raised"

\* The step in which the limiter's history was emptied, or the clearing
\* statement ran on an empty one.
HistoryCleared ==
    /\ driver \in LLMDrivers
    /\ \/ request_times # <<>> /\ request_times' = <<>>
       \/ Len(log') > Len(log) /\ log'[Len(log')].ev = "clear"

\* C32: when the LLM-level driver gives up on an error (a non-quota error,
\* or a quota error on the final attempt) it waits no time, computes no
\* backoff and leaves request_times as it is, the timestamp of the failed
\* attempt included (an attempt that reached the provider call has one);
\* request_times is emptied only in the step that handles a quota error
\* at an attempt before the last.
C32_HistoryKeptWhenGivingUp ==
    /\ [][LLMGivesUp =>
            /\ request_times' = request_times
            /\ pc = "call" =>
                   /\ Len(request_times) >= 1
                   /\ request_times[Len(request_times)] = recorded[Len(recorded)]
            /\ now' = now
            /\ wait_time' = wait_time
            /\ Len(log') = Len(log) + 2
            /\ log'[Len(log')].ev \in {"error", "refused"}
            /\ (~llm_is_quota_error(log'[Len(log')].text)
                  \/ attempt = max_quota_retries - 1)]_vars
    /\ [][HistoryCleared =>
            /\ pc \in {"acquire", "call"} /\ pc' = "countdown"
            /\ attempt < max_quota_retries - 1
            /\ log'[Len(log')].ev = "clear"
            /\ log'[Len(log') - 2].ev \in {"error", "refused"}
            /\ llm_is_quota_error(log'[Len(log') - 2].text)]_vars

\* _generate gave up on the fifth quota error: the four earlier ones each
\* emptied the history, the timestamp of the fifth attempt is still there.
C32_Witness ==
    /\ driver = "_generate"
    /\ pc = "raised"
    /\ exc = Constructed(llm_exhausted_text)
    /\ Cardinality(Indices("clear")) = max_quota_retries - 1
    /\ Len(recorded) = max_quota_retries
    /\ request_times = << recorded[Len(recorded)] >>

\* The texts of the raise statements that follow the for loops.
FallThroughTexts ==
    { LLMFallThroughText(d) : d \in LLMDrivers } \cup { crew_fall_through_text }

\* The aggregate error of the running driver.
ExhaustedText == IF driver = CrewDriver THEN crew_exhausted_text ELSE llm_exhausted_text

ReturnedResult ==
    /\ pc = "returned"
    /\ exc = NoException
    /\ log[Len(log)] = Event("return", attempt, result)

RaisedOriginal ==
    /\ pc = "raised"
    /\ log[Len(log)].ev \in {"error", "refused"}
    /\ ~ClassifiedQuota(LastCaught)
    /\ exc = Reraised(LastCaught)

RaisedExhausted ==
    /\ pc = "raised"
    /\ log[Len(log)].ev \in {"error", "refused"}
    /\ ClassifiedQuota(LastCaught)
    /\ Cardinality(Caught) = MaxAttempts
    /\ exc = Constructed(ExhaustedText)

\* C34: a run of a retry driver that entered its loop (5 attempts) ends in
\* exactly one of three ways: it returns the operation's result, it raises
\* the operation's own non-quota error, or it raises the aggregate
\* quota-exhausted error; the raise after the loop ("Failed to ... after
\* maximum attempts") is never the one that ends it, and leaving the loop
\* goes with the attempt counter still below the budget.
C34_ThreeOutcomes ==
    /\ pc \in {"returned", "raised"} =>
           /\ ReturnedResult \/ RaisedOriginal \/ RaisedExhausted
           /\ ~(ReturnedResult /\ RaisedOriginal)
           /\ ~(ReturnedResult /\ RaisedExhausted)
           /\ ~(RaisedOriginal /\ RaisedExhausted)
    /\ ~(exc.origin = "driver" /\ exc.text \in FallThroughTexts)
    /\ attempt < MaxAttempts

\* invoke returned at its fifth and last attempt, after four quota errors
\* and four countdowns.
C34_Witness ==
    /\ driver = "invoke"
    /\ ReturnedResult
    /\ attempt = max_quota_retries - 1
    /\ Cardinality(Errors) = max_quota_retries - 1
    /\ Waits = max_quota_retries - 1

---------------------------------------------------------------------------
(* Termination of a retry driver (checked under FairSpec).                 *)

Finished == pc \in {"returned", "raised", "cancelled"}

\* C29: every run of a retry driver ends, returning or raising, after at
\* most max_attempts invocations of the operation; the attempt index stays
\* within 0..max_attempts-1, changes only at the end of a countdown, the
\* step to a retry, and then grows by exactly 1.
C29_DriverTerminates ==
    /\ <>Finished
    /\ [](Calls <= MaxAttempts /\ attempt \in 0..(MaxAttempts - 1))
    /\ [][attempt' # attempt => (pc = "countdown" /\ attempt' = attempt + 1)]_vars
    /\ [][Finished => UNCHANGED <<pc, attempt, log>>]_vars

\* The crew-level driver ended after its fifth attempt.
C29_Witness ==
    /\ driver = CrewDriver
    /\ Finished
    /\ attempt = max_retries - 1
    /\ Calls = max_retries
    /\ Waits = max_retries - 1

===========================================================================
